---- MODULE Spec2Model ----
(***************************************************************************)
(* Transport-hardening core of polymarket_client: the token-bucket and     *)
(* sliding-window rate limiters, the rate-limited HTTP adapter, HMAC       *)
(* request signing / validation and the authentication middleware.         *)
(*                                                                         *)
(* Time.  The clock `now` counts ticks of 100 ms, so that the 0.1 s sleep  *)
(* of the token bucket is one tick and one second is TicksPerSecond ticks. *)
(* Every reading of time.time() is a reading of `now`; the clock advances  *)
(* only by the Tick action, which may interleave anywhere a thread is not  *)
(* inside one atomic step.                                                 *)
(*                                                                         *)
(* Tokens.  A rate is a pair <<R, S>>: R token units are added per tick    *)
(* and one token is S units (rate = R * TicksPerSecond / S per second).    *)
(* bucket.tokens is kept in units, so the float arithmetic of the source   *)
(* is exact rational arithmetic here.                                      *)
(*                                                                         *)
(* Optional values (Python None) are sequences: <<>> is None, <<v>> is v.  *)
(***************************************************************************)
EXTENDS Integers, Sequences, FiniteSets, TLC

VARIABLES
    now,            \* time.time(), in ticks
    limiter,        \* TokenBucketRateLimiter: rate, burst_capacity, per_host
    buckets,        \* TokenBucketRateLimiter._buckets (defaultdict), key -> <<>> | <<bucket>>
    global_bucket,  \* TokenBucketRateLimiter._global_bucket
    adapter,        \* RateLimitedHTTPAdapter: timeout_on_rate_limit
    th,             \* per thread: position and locals of the call in progress
    calls,          \* number of calls started so far (bounds the run)
    born,           \* ghost: per bucket, the clock when it was created
    grants,         \* ghost: per bucket, number of tokens granted
    denials,        \* ghost: per bucket, whether an attempt found the bucket short
    detached,       \* per thread: a bucket the thread holds that _buckets does not (or no longer)
    sw,             \* SlidingWindowRateLimiter: limit, window_size, per_host
    windows,        \* SlidingWindowRateLimiter._windows (defaultdict), key -> <<>> | <<deque>>
    global_window,  \* SlidingWindowRateLimiter._global_window, its deque of request times
    swLock,         \* per window, the thread holding window["lock"], 0 when free
    issued,         \* ghost: per window, every time ever appended, in order
    signed,         \* the last sign_request_hmac call: its signer, arguments and outcome
    vcall,          \* the last call of a SignatureValidator method: arguments and result
    mw,             \* AuthMiddleware: max_timestamp_age, enable_nonce_tracking
    used_nonces,    \* AuthMiddleware.used_nonces
    vreq,           \* the last validate_request call: request, api_secret and outcome
    consumed,       \* history: the nonces that passed validate_nonce in validate_request, in order
    cleanup,        \* the last cleanup_nonces call: argument, clock, used_nonces before it
    inflight,       \* per thread: its validate_request call in progress, when threads share mw
    sigcall,        \* the last create_auth_signature call: arguments and outcome
    sent,           \* the last request that went through PolymarketAuth.__call__
    pg              \* a Paginator, its strategy, the source, and the call in progress

tbVars == <<limiter, buckets, global_bucket, adapter, born, grants, denials, detached>>

swVars == <<sw, windows, global_window, swLock, issued>>

mwVars == <<mw, used_nonces, vreq, consumed, cleanup, inflight>>

signVars == <<sigcall, sent>>

authVars == <<signed, vcall, mwVars, signVars>>

pageVars == <<pg>>

vars == <<now, th, calls, tbVars, swVars, authVars, pageVars>>

-----------------------------------------------------------------------------
(* Bounds of the model *)

MaxTime == 4

MaxCalls == 6

MaxBurst == 5

MaxTimeSW == 12

MaxCallsSW == 3

MaxLimit == 2

MaxAsked == 2

(* Program constants: ticks in one second, in the 0.1 s and in the 1.0 s sleep cap *)

TicksPerSecond == 10

SleepCapTB == 1

SleepCapSW == 10

None == <<>>

Some(v) == <<v>>

Threads == {1, 2}

SeqThreads == {1}

Urls == {"http://a/x", "http://b/y"}

SeqUrls == {"http://a/x"}

\* urls of two hosts, two of them of the same host
KeyUrls == Urls \cup {"http://a/z"}

Netloc(url) == IF url \in {"http://a/x", "http://a/z"} THEN "a" ELSE "b"

Hosts == {Netloc(u) : u \in Urls}

DictKeys == Hosts \cup {"global"}

GlobalRef == "_global_bucket"

BucketRefs == DictKeys \cup {GlobalRef}

\* the reference a thread has to a bucket object that is not the one stored under its key
OwnRef(t) == IF t = 1 THEN "own1" ELSE "own2"

OwnRefs == {OwnRef(t) : t \in Threads}

Owner(ref) == CHOOSE t \in Threads : OwnRef(t) = ref

Rates == {<<1, 2>>, <<2, 3>>}

Timeouts == {None, Some(0), Some(2)}

InnerOutcomes == {"Response200", "Response500", "ConnectionError"}

Min(a, b) == IF a <= b THEN a ELSE b

-----------------------------------------------------------------------------
(* TokenBucketRateLimiter *)

\* __init__: burst_capacity or int(requests_per_second * 2)
DefaultBurst(rate) == (2 * rate[1] * TicksPerSecond) \div rate[2]

BurstCapacity(burstArg, rate) ==
    IF burstArg # None /\ burstArg[1] # 0 THEN burstArg[1] ELSE DefaultBurst(rate)

TokenBucketRateLimiter(rate, burstArg, perHost) ==
    [rate |-> rate, burst_capacity |-> BurstCapacity(burstArg, rate), per_host |-> perHost]

\* units per token and units per tick of the configured limiter
S == limiter.rate[2]

R == limiter.rate[1]

CapUnits == limiter.burst_capacity * S

\* the default factory of _buckets, and the initial _global_bucket
NewBucket(t) == [tokens |-> CapUnits, last_update |-> t]

\* a key that is the same for every host whatever per_host says
get_bucket_key_fixed(url) == "global"

get_bucket_key(url) == IF limiter.per_host THEN Netloc(url) ELSE "global"

\* _get_bucket: the reference of the bucket the key selects
get_bucket(bucket_key) ==
    IF bucket_key = "global" /\ ~limiter.per_host THEN GlobalRef ELSE bucket_key

\* the bucket behind a reference, the defaultdict creating it on a miss
Deref(ref) ==
    IF ref = GlobalRef THEN global_bucket
    ELSE IF ref \in OwnRefs THEN detached[Owner(ref)][1]
    ELSE IF buckets[ref] = None THEN NewBucket(now) ELSE buckets[ref][1]

Exists(ref) ==
    \/ ref = GlobalRef
    \/ ref \in OwnRefs /\ detached[Owner(ref)] # None
    \/ ref \in DictKeys /\ buckets[ref] # None

\* the key's reference of the call in progress, whichever object the call works on
KeyRef(rec) == get_bucket(get_bucket_key(rec.url))

\* a refill that credits one tick more than has elapsed
refill_tokens_early(bucket, t) ==
    [tokens |-> Min(CapUnits, bucket.tokens + (t - bucket.last_update + 1) * R),
     last_update |-> t]

\* a refill that does not saturate at the capacity
refill_tokens_unbounded(bucket, t) ==
    [tokens |-> bucket.tokens + (t - bucket.last_update) * R, last_update |-> t]

\* _refill_tokens, with now read by the caller's step
refill_tokens(bucket, t) ==
    [tokens |-> Min(CapUnits, bucket.tokens + (t - bucket.last_update) * R),
     last_update |-> t]

\* the bucket store with the bucket behind ref replaced by b
Store(ref, b) ==
    /\ global_bucket' = IF ref = GlobalRef THEN b ELSE global_bucket
    /\ buckets' = IF ref \in DictKeys THEN [buckets EXCEPT ![ref] = Some(b)] ELSE buckets
    /\ detached' = IF ref \in OwnRefs THEN [detached EXCEPT ![Owner(ref)] = Some(b)]
                   ELSE detached
    /\ born' = IF Exists(ref) THEN born ELSE [born EXCEPT ![ref] = now]

Idle ==
    [pc |-> "idle", via |-> "none", url |-> "", ref |-> GlobalRef, timeout |-> None,
     start_time |-> 0, wait_time |-> 0, checked_at |-> 0, sleep_for |-> 0,
     result |-> "none", retry_after |-> None, can |-> <<>>,
     took |-> 0, waitArgs |-> <<>>, innerCalls |-> 0, innerOutcome |-> "none"]

-----------------------------------------------------------------------------
(* RateLimitedHTTPAdapter.send, after wait_if_needed has returned or raised *)

\* a send that lets the limiter's error through unconverted
send_on_rate_limit_error_raw(rec) == [rec EXCEPT !.pc = "done", !.result = "RateLimitError"]

\* except RateLimitError: raise requests.exceptions.Timeout
send_on_rate_limit_error(rec) == [rec EXCEPT !.pc = "done", !.result = "Timeout"]

\* a send that answers without calling the inner transport
send_on_granted_skip(rec) == [rec EXCEPT !.pc = "done", !.result = "Response200"]

\* return super().send(request): the inner transport is called next
send_on_granted(rec) == [rec EXCEPT !.pc = "inner"]

\* wait_if_needed returns: to its direct caller, or into send
Returned(rec) ==
    IF rec.via = "send" THEN send_on_granted(rec)
    ELSE [rec EXCEPT !.pc = "done", !.result = "granted"]

\* wait_if_needed raises RateLimitError(msg, retry_after): to its direct caller, or into send
Raised(rec, retry_after) ==
    LET e == [rec EXCEPT !.retry_after = Some(retry_after)]
    IN  IF rec.via = "send" THEN send_on_rate_limit_error(e)
        ELSE [e EXCEPT !.pc = "done", !.result = "RateLimitError"]

-----------------------------------------------------------------------------
(* Actions of the token bucket *)

\* the answer of the can_proceed call of the caller right before its
\* wait_if_needed on the same bucket, if there was one
Asked(rec, ref) ==
    IF rec.ref = ref /\ rec.can # <<>> THEN <<rec.can[Len(rec.can)]>> ELSE <<>>

\* wait_if_needed, lines 100-103: key, bucket (created on a miss), start_time
Enter(t, via, url, timeout, args) ==
    LET ref == get_bucket(get_bucket_key(url))
    IN  /\ th[t].pc = "idle"
        /\ calls < MaxCalls
        /\ calls' = calls + 1
        /\ Store(ref, Deref(ref))
        /\ th' = [th EXCEPT ![t] = [Idle EXCEPT !.pc = "tb_loop", !.via = via, !.url = url,
                                     !.ref = ref, !.timeout = timeout, !.start_time = now,
                                     !.waitArgs = args, !.can = Asked(th[t], ref)]]
        /\ UNCHANGED <<now, limiter, adapter, grants, denials, swVars, authVars, pageVars>>

WaitIfNeeded(t, url, timeout) == Enter(t, "direct", url, timeout, <<>>)

\* RateLimitedHTTPAdapter.send, lines 255-259
Send(t, url) ==
    Enter(t, "send", url, adapter.timeout_on_rate_limit,
          << <<url, adapter.timeout_on_rate_limit>> >>)

\* the answers a caller has had from its can_proceed calls in a row on one bucket
Answers(rec, ref, answer) ==
    Append(IF rec.ref = ref THEN rec.can ELSE <<>>, answer)

\* a can_proceed that takes the token it reports
can_proceed_taking(bucket, t) ==
    LET b == refill_tokens(bucket, t)
    IN  [bucket |-> IF b.tokens >= S THEN [b EXCEPT !.tokens = b.tokens - S] ELSE b,
         answer |-> b.tokens >= S]

\* the locked block of can_proceed: the bucket after it and the answer
can_proceed(bucket, t) ==
    LET b == refill_tokens(bucket, t)
    IN  [bucket |-> b, answer |-> b.tokens >= S]

\* can_proceed: refill under the lock and test, nothing is taken
CanProceed(t, url) ==
    LET ref == get_bucket(get_bucket_key(url))
        out == can_proceed(Deref(ref), now)
    IN  /\ th[t].pc = "idle"
        /\ Len(th[t].can) < MaxAsked
        /\ Store(ref, out.bucket)
        /\ th' = [th EXCEPT ![t] = [Idle EXCEPT !.url = url, !.ref = ref,
                                     !.can = Answers(th[t], ref, out.answer)]]
        /\ UNCHANGED <<now, limiter, adapter, calls, grants, denials, swVars, authVars, pageVars>>

\* one pass of the loop body under the bucket's lock, lines 106-114
TBAttempt(t) ==
    LET ref == th[t].ref
        key == KeyRef(th[t])
        old == Deref(ref)
        b == refill_tokens(old, now)
    IN  /\ th[t].pc = "tb_loop"
        /\ IF b.tokens >= S
           THEN /\ Store(ref, [b EXCEPT !.tokens = b.tokens - S])
                /\ th' = [th EXCEPT ![t] = Returned([th[t] EXCEPT !.took = th[t].took + 1])]
                /\ grants' = [grants EXCEPT ![key] = grants[key] + 1]
                /\ UNCHANGED denials
           ELSE /\ Store(ref, b)
                /\ th' = [th EXCEPT ![t].pc = "tb_check", ![t].wait_time = S - b.tokens]
                /\ denials' = [denials EXCEPT ![key] = Min(denials[key] + 1, 1)]
                /\ UNCHANGED grants
        /\ UNCHANGED <<now, limiter, adapter, calls, swVars, authVars, pageVars>>

\* a timeout check that forgets the time already waited
TimedOut_no_elapsed(rec, t) == rec.timeout # None /\ rec.wait_time > rec.timeout[1] * R

\* elapsed + wait_time > timeout, in units: wait_time is (1 - tokens) * S, a tick is R units
TimedOut(rec, t) == rec.timeout # None /\ (t - rec.start_time) * R + rec.wait_time > rec.timeout[1] * R

\* the timeout check and the start of the sleep, lines 117-124
TBCheck(t) ==
    /\ th[t].pc = "tb_check"
    /\ IF TimedOut(th[t], now)
       THEN th' = [th EXCEPT ![t] = Raised([th[t] EXCEPT !.checked_at = now], th[t].wait_time)]
       ELSE th' = [th EXCEPT ![t].pc = "tb_sleep", ![t].checked_at = now,
                             ![t].sleep_for = Min(th[t].wait_time, SleepCapTB * R)]
    /\ UNCHANGED <<now, calls, tbVars, swVars, authVars, pageVars>>

\* time.sleep returns once at least the requested time has passed
TBWake(t) ==
    /\ th[t].pc = "tb_sleep"
    /\ (now - th[t].checked_at) * R >= th[t].sleep_for
    /\ th' = [th EXCEPT ![t].pc = "tb_loop", ![t].wait_time = 0, ![t].checked_at = 0,
                        ![t].sleep_for = 0]
    /\ UNCHANGED <<now, calls, tbVars, swVars, authVars, pageVars>>

\* super().send(request): the inner transport answers or fails, send passes it on
InnerSend(t, outcome) ==
    /\ th[t].pc = "inner"
    /\ th' = [th EXCEPT ![t].pc = "done", ![t].innerCalls = th[t].innerCalls + 1,
                        ![t].innerOutcome = outcome, ![t].result = outcome]
    /\ UNCHANGED <<now, calls, tbVars, swVars, authVars, pageVars>>

\* the caller takes the result; the thread is free for its next call
Return(t) ==
    /\ th[t].pc = "done"
    /\ th' = [th EXCEPT ![t] = Idle]
    /\ UNCHANGED <<now, calls, tbVars, swVars, authVars, pageVars>>

Tick ==
    /\ now < MaxTime
    /\ now' = now + 1
    /\ UNCHANGED <<th, calls, tbVars, swVars, authVars, pageVars>>

\* C22 (token bucket): on a fresh bucket of capacity N >= 1 from which nothing
\* was taken, with no time elapsed, the i-th can_proceed call in a row answers
\* True for i <= N and False for i = N + 1.
C22_FirstNThenDenied ==
    \A t \in Threads :
        LET rec == th[t]
        IN  (rec.can # <<>> /\ now = born[rec.ref] /\ grants[rec.ref] = 0
                /\ limiter.burst_capacity >= 1) =>
               \A i \in DOMAIN rec.can : rec.can[i] = (i <= limiter.burst_capacity)

-----------------------------------------------------------------------------
(* Strings are sequences of characters; a character is a one-letter string,  *)
(* NUL the zero byte.                                                        *)

MaxStrLen == 2

NUL == "NUL"

StrsUpTo(alphabet, n) == UNION {[1..k -> alphabet] : k \in 0..n}

\* str.upper on the letters in use
Upper(c) ==
    CASE c = "g" -> "G" [] c = "e" -> "E" [] c = "t" -> "T"
      [] c = "p" -> "P" [] c = "u" -> "U" [] OTHER -> c

upper(str) == [i \in 1..Len(str) |-> Upper(str[i])]

Digits == <<"0", "1", "2", "3", "4", "5", "6", "7", "8", "9">>

IsDigit(c) == \E d \in 1..10 : Digits[d] = c

DigitVal(c) == (CHOOSE d \in 1..10 : Digits[d] = c) - 1

RECURSIVE IntToStr(_)
\* str(n) of an int n >= 0
IntToStr(n) ==
    IF n < 10 THEN <<Digits[n + 1]>> ELSE IntToStr(n \div 10) \o <<Digits[(n % 10) + 1]>>

RECURSIVE LStrip(_)
LStrip(str) == IF str # <<>> /\ str[1] = " " THEN LStrip(Tail(str)) ELSE str

RECURSIVE RStrip(_)
RStrip(str) ==
    IF str # <<>> /\ str[Len(str)] = " " THEN RStrip(SubSeq(str, 1, Len(str) - 1)) ELSE str

RECURSIVE DigitsValue(_, _)
\* the value of a run of digits, most significant first, given the value so far
DigitsValue(str, acc) ==
    IF str = <<>> THEN acc ELSE DigitsValue(Tail(str), 10 * acc + DigitVal(str[1]))

\* digits, single underscores allowed between them
DigitRun(str) ==
    /\ str # <<>>
    /\ \A i \in 1..Len(str) : IsDigit(str[i]) \/ str[i] = "_"
    /\ str[1] # "_" /\ str[Len(str)] # "_"
    /\ \A i \in 1..(Len(str) - 1) : ~(str[i] = "_" /\ str[i + 1] = "_")

NoUnderscore(str) == SelectSeq(str, LAMBDA c : c # "_")

\* int(str): None where Python raises ValueError
ParseInt(str) ==
    LET body == RStrip(LStrip(str))
        signedStr == body # <<>> /\ body[1] \in {"-", "+"}
        digits == IF signedStr THEN Tail(body) ELSE body
    IN  IF ~DigitRun(digits) THEN None
        ELSE IF signedStr /\ body[1] = "-"
             THEN Some(0 - DigitsValue(NoUnderscore(digits), 0))
             ELSE Some(DigitsValue(NoUnderscore(digits), 0))

\* int(time.time())
UnixSeconds(t) == t \div TicksPerSecond

-----------------------------------------------------------------------------
(* RequestSigner.sign_request_hmac and SignatureValidator.validate_hmac_signature *)

\* bool(x) of an optional string: None and "" are false
Truthy(opt) == opt # None /\ opt[1] # <<>>

RECURSIVE StripNul(_)
\* HMAC pads a key shorter than the block with zero bytes: trailing NULs do not count
StripNul(key) ==
    IF key # <<>> /\ key[Len(key)] = NUL THEN StripNul(SubSeq(key, 1, Len(key) - 1)) ELSE key

\* hmac.new(key, message, sha256).hexdigest(), SHA-256 taken as collision-free:
\* the digest determines, and is determined by, the padded key and the message
hmac_hexdigest(key, message) == <<"hmac-sha256", StripNul(key), message>>

\* the string to sign, request_signer.py line 79
signer_message(timestamp, method, path, body) == timestamp \o upper(method) \o path \o body

\* a validator that forgets to upper-case the method
validator_message_raw(timestamp, method, path, body) == timestamp \o method \o path \o body

\* the string to verify, signature_validator.py line 47
validator_message(timestamp, method, path, body) == timestamp \o upper(method) \o path \o body

HmacHeaderNames == {"L2-API-KEY", "L2-API-SIGNATURE", "L2-API-TIMESTAMP", "L2-API-PASSPHRASE"}

\* sign_request_hmac at clock t: the headers, or the error raised
sign_request_hmac(signer, method, path, body, timestamp, t) ==
    IF ~(Truthy(signer.api_key) /\ Truthy(signer.api_secret) /\ Truthy(signer.api_passphrase))
    THEN [raised |-> "ValueError", headers |-> <<>>]
    ELSE LET ts == IF timestamp = None THEN IntToStr(UnixSeconds(t)) ELSE timestamp[1]
             signature == hmac_hexdigest(signer.api_secret[1],
                                         signer_message(ts, method, path, body))
         IN  [raised |-> "none",
              headers |-> [h \in HmacHeaderNames |->
                             CASE h = "L2-API-KEY" -> signer.api_key[1]
                               [] h = "L2-API-SIGNATURE" -> signature
                               [] h = "L2-API-TIMESTAMP" -> ts
                               [] h = "L2-API-PASSPHRASE" -> signer.api_passphrase[1]]]

\* validate_hmac_signature: an exception (api_secret None) gives False
validate_hmac_signature(signature, api_secret, method, path, body, timestamp) ==
    IF api_secret = None THEN FALSE
    ELSE signature = hmac_hexdigest(api_secret[1],
                                    validator_message(timestamp, method, path, body))

Methods == {<<"g", "e", "t">>, <<"G", "E", "T">>, <<"p", "u", "t">>}

PathChars == {"/"}

Paths == StrsUpTo(PathChars, MaxStrLen)

Bodies == StrsUpTo(PathChars, MaxStrLen)

HmacTimestamps == {<<"0">>, <<"1", "2">>}

HmacClock == {0, 12 * TicksPerSecond}

Secrets == {None, Some(<<>>), Some(<<"s">>), Some(<<"s", NUL>>), Some(<<"t">>)}

Signers ==
    [api_key : {None, Some(<<"K">>)}, api_secret : Secrets,
     api_passphrase : {None, Some(<<"P">>)}]

InvalidSignature == <<"invalid_signature">>

SignOk == signed # None /\ signed[1].out.raised = "none"

SignRequestHmac(signer, method, path, body, timestamp) ==
    /\ signed = None
    /\ vcall = None
    /\ signed' = Some([signer |-> signer, method |-> method, path |-> path, body |-> body,
                        timestamp |-> timestamp,
                        out |-> sign_request_hmac(signer, method, path, body, timestamp, now)])
    /\ UNCHANGED <<now, th, calls, tbVars, swVars, vcall, mwVars, signVars, pageVars>>

\* the validator is handed the signature just produced, or one that was never issued
ValidateHmacSignature(signature, api_secret, method, path, body, timestamp) ==
    /\ vcall = None
    /\ signed = None \/ SignOk
    /\ signature = InvalidSignature
          \/ (SignOk /\ signature = signed[1].out.headers["L2-API-SIGNATURE"])
    /\ vcall' = Some([fn |-> "validate_hmac_signature", signature |-> signature,
                       api_secret |-> api_secret, method |-> method, path |-> path,
                       body |-> body, timestamp |-> timestamp,
                       result |-> validate_hmac_signature(signature, api_secret, method,
                                                          path, body, timestamp)])
    /\ UNCHANGED <<now, th, calls, tbVars, swVars, signed, mwVars, signVars, pageVars>>

ValidatorUnused ==
    /\ signed = None
    /\ vcall = None

MiddlewareUnused ==
    /\ mw = [validator |-> "SignatureValidator", max_timestamp_age |-> 300,
             enable_nonce_tracking |-> TRUE]
    /\ used_nonces = {}
    /\ vreq = None
    /\ consumed = <<>>
    /\ cleanup = None
    /\ inflight = [t \in Threads |-> None]

SignerUnused ==
    /\ sigcall = None
    /\ sent = None

PaginatorUnused == pg = None

AuthUnused == ValidatorUnused /\ MiddlewareUnused /\ SignerUnused

-----------------------------------------------------------------------------
(* SlidingWindowRateLimiter *)

SlidingWindowRateLimiter(limit, windowSeconds, perHost) ==
    [limit |-> limit, window_size |-> windowSeconds * TicksPerSecond, per_host |-> perHost]

sw_get_bucket_key(url) == IF sw.per_host THEN Netloc(url) ELSE "global"

\* _get_window: the reference of the window the key selects
get_window(bucket_key) ==
    IF bucket_key = "global" /\ ~sw.per_host THEN GlobalRef ELSE bucket_key

\* window["requests"] behind a reference, the defaultdict creating it on a miss
Requests(ref) ==
    IF ref = GlobalRef THEN global_window
    ELSE IF windows[ref] = None THEN <<>> ELSE windows[ref][1]

StoreRequests(ref, q) ==
    /\ global_window' = IF ref = GlobalRef THEN q ELSE global_window
    /\ windows' = IF ref = GlobalRef THEN windows ELSE [windows EXCEPT ![ref] = Some(q)]

RECURSIVE DropWhile(_, _)
\* popleft while the oldest request time is before the cutoff
DropWhile(q, cutoff) ==
    IF q # <<>> /\ q[1] < cutoff THEN DropWhile(Tail(q), cutoff) ELSE q

RECURSIVE DropWhileInclusive(_, _)
\* a cleanup that also evicts the request made exactly window_size ago
DropWhileInclusive(q, cutoff) ==
    IF q # <<>> /\ q[1] <= cutoff THEN DropWhileInclusive(Tail(q), cutoff) ELSE q

cleanup_old_requests_inclusive(q, t) == DropWhileInclusive(q, t - sw.window_size)

\* _cleanup_old_requests, with now read by the caller's step
cleanup_old_requests(q, t) == DropWhile(q, t - sw.window_size)

\* wait_if_needed, lines 200-203: key, window (created on a miss), start_time
SWWaitIfNeeded(t, url, timeout) ==
    LET ref == get_window(sw_get_bucket_key(url))
    IN  /\ th[t].pc = "idle"
        /\ calls < MaxCallsSW
        /\ calls' = calls + 1
        /\ StoreRequests(ref, Requests(ref))
        /\ th' = [th EXCEPT ![t] = [Idle EXCEPT !.pc = "sw_lock", !.via = "direct",
                                     !.url = url, !.ref = ref, !.timeout = timeout,
                                     !.start_time = now, !.can = Asked(th[t], ref)]]
        /\ UNCHANGED <<now, tbVars, sw, swLock, issued, authVars, pageVars>>

\* can_proceed: cleanup under the lock and test, nothing is recorded
SWCanProceed(t, url) ==
    LET ref == get_window(sw_get_bucket_key(url))
        q == cleanup_old_requests(Requests(ref), now)
    IN  /\ th[t].pc = "idle"
        /\ Len(th[t].can) < MaxAsked
        /\ swLock[ref] = 0
        /\ StoreRequests(ref, q)
        /\ th' = [th EXCEPT ![t] = [Idle EXCEPT !.url = url, !.ref = ref,
                                     !.can = Answers(th[t], ref, Len(q) < sw.limit)]]
        /\ UNCHANGED <<now, calls, tbVars, sw, swLock, issued, authVars, pageVars>>

\* with window["lock"]: _cleanup_old_requests(window), lines 206-207
SWLock(t) ==
    LET ref == th[t].ref
    IN  /\ th[t].pc = "sw_lock"
        /\ swLock[ref] = 0
        /\ swLock' = [swLock EXCEPT ![ref] = t]
        /\ StoreRequests(ref, cleanup_old_requests(Requests(ref), now))
        /\ th' = [th EXCEPT ![t].pc = "sw_test"]
        /\ UNCHANGED <<now, calls, tbVars, sw, issued, authVars, pageVars>>

\* a with block that leaves the window's lock taken
release_never(ref) == swLock

\* the end of "with window["lock"]": the lock of the window is free again
release(ref) == [swLock EXCEPT ![ref] = 0]

\* the rest of the locked block, lines 209-215, with its own reading of the clock;
\* requests[0] of an empty deque raises IndexError; the lock is released on every exit
SWTest(t) ==
    LET ref == th[t].ref
        q == Requests(ref)
    IN  /\ th[t].pc = "sw_test"
        /\ swLock' = release(ref)
        /\ IF Len(q) < sw.limit
           THEN /\ StoreRequests(ref, Append(q, now))
                /\ issued' = [issued EXCEPT ![ref] = Append(issued[ref], now)]
                /\ th' = [th EXCEPT ![t] = Returned([th[t] EXCEPT !.took = th[t].took + 1])]
           ELSE /\ UNCHANGED <<windows, global_window, issued>>
                /\ IF q = <<>>
                   THEN th' = [th EXCEPT ![t].pc = "done", ![t].result = "IndexError"]
                   ELSE th' = [th EXCEPT ![t].pc = "sw_check",
                                         ![t].wait_time = q[1] + sw.window_size - now]
        /\ UNCHANGED <<now, calls, tbVars, sw, authVars, pageVars>>

\* elapsed + wait_time > timeout, in ticks
SWTimedOut(rec, t) == rec.timeout # None /\ (t - rec.start_time) + rec.wait_time > rec.timeout[1]

\* the timeout check and the start of the sleep, lines 218-225;
\* time.sleep of a negative length raises ValueError
SWCheck(t) ==
    /\ th[t].pc = "sw_check"
    /\ IF SWTimedOut(th[t], now)
       THEN th' = [th EXCEPT ![t] = Raised([th[t] EXCEPT !.checked_at = now], th[t].wait_time)]
       ELSE IF th[t].wait_time < 0
            THEN th' = [th EXCEPT ![t].pc = "done", ![t].checked_at = now,
                                  ![t].result = "ValueError"]
            ELSE th' = [th EXCEPT ![t].pc = "sw_sleep", ![t].checked_at = now,
                                  ![t].sleep_for = Min(th[t].wait_time, SleepCapSW)]
    /\ UNCHANGED <<now, calls, tbVars, swVars, authVars, pageVars>>

\* time.sleep returns once at least the requested time has passed
SWWake(t) ==
    /\ th[t].pc = "sw_sleep"
    /\ now - th[t].checked_at >= th[t].sleep_for
    /\ th' = [th EXCEPT ![t].pc = "sw_lock", ![t].wait_time = 0, ![t].checked_at = 0,
                        ![t].sleep_for = 0]
    /\ UNCHANGED <<now, calls, tbVars, swVars, authVars, pageVars>>

SWTick ==
    /\ now < MaxTimeSW
    /\ now' = now + 1
    /\ UNCHANGED <<th, calls, tbVars, swVars, authVars, pageVars>>

\* the sliding-window limiter is not part of the run
SWUnused ==
    /\ sw = SlidingWindowRateLimiter(0, 0, FALSE)
    /\ windows = [k \in DictKeys |-> None]
    /\ global_window = <<>>
    /\ swLock = [r \in BucketRefs |-> 0]
    /\ issued = [r \in BucketRefs |-> <<>>]

\* the token bucket and the adapter are not part of the run
TBUnused ==
    /\ limiter = TokenBucketRateLimiter(<<1, 1>>, Some(1), FALSE)
    /\ buckets = [k \in DictKeys |-> None]
    /\ global_bucket = [tokens |-> 1, last_update |-> 0]
    /\ adapter = [timeout_on_rate_limit |-> None]
    /\ born = [r \in BucketRefs |-> 0]
    /\ grants = [r \in BucketRefs |-> 0]
    /\ denials = [r \in BucketRefs |-> 0]
    /\ detached = [t \in Threads |-> None]

WindowSeconds == {1}

SWTimeouts == {None, Some(0), Some(11)}

InitSW ==
    /\ now = 0
    /\ \E limit \in 0..MaxLimit, w \in WindowSeconds, perHost \in BOOLEAN :
          sw = SlidingWindowRateLimiter(limit, w, perHost)
    /\ windows = [k \in DictKeys |-> None]
    /\ global_window = <<>>
    /\ swLock = [r \in BucketRefs |-> 0]
    /\ issued = [r \in BucketRefs |-> <<>>]
    /\ th = [t \in Threads |-> Idle]
    /\ calls = 0
    /\ TBUnused
    /\ AuthUnused
    /\ PaginatorUnused

NextSW ==
    \/ \E t \in SeqThreads, url \in SeqUrls, timeout \in SWTimeouts :
          SWWaitIfNeeded(t, url, timeout)
    \/ \E t \in SeqThreads, url \in SeqUrls : SWCanProceed(t, url)
    \/ \E t \in SeqThreads : SWLock(t)
    \/ \E t \in SeqThreads : SWTest(t)
    \/ \E t \in SeqThreads : SWCheck(t)
    \/ \E t \in SeqThreads : SWWake(t)
    \/ \E t \in SeqThreads : Return(t)
    \/ SWTick

SpecSW == InitSW /\ [][NextSW]_vars

\* the wait of a caller that found the window full is not negative
WaitNotNegative(t) ==
    /\ th[t].pc \in {"sw_check", "sw_sleep"} => th[t].wait_time >= 0
    /\ th[t].retry_after # None => th[t].retry_after[1] >= 0

\* a finished call was granted or failed with RateLimitError
OnlyRateLimitError(t) ==
    th[t].pc = "done" => th[t].result \in {"granted", "RateLimitError"}

\* C40: whenever the sliding-window wait_if_needed finds the window full, the
\* wait it computes (oldest timestamp + window size - current time) is never
\* negative, at every reading of the clock between eviction and the
\* computation; hence it never sleeps for or reports a negative duration and
\* fails only with RateLimitError.
C40_WaitNeverNegative ==
    \A t \in SeqThreads : WaitNotNegative(t) /\ OnlyRateLimitError(t)

\* C2: the times at which the sliding window grants requests on one key never
\* put more than limit grants into an interval of window_size: any limit + 1
\* successive grants span more than window_size.
C2_WindowBound ==
    \A ref \in BucketRefs :
        \A i \in 1..Len(issued[ref]) :
            i + sw.limit <= Len(issued[ref]) =>
                issued[ref][i + sw.limit] - issued[ref][i] > sw.window_size

\* a grant that had to wait for the window to move on
C2_Witness ==
    \E ref \in BucketRefs :
        /\ sw.limit >= 1
        /\ Len(issued[ref]) > sw.limit
        /\ Len(Requests(ref)) = sw.limit

-----------------------------------------------------------------------------
(* Signing and validating, as pure functions of their arguments *)

InitHmac ==
    /\ now \in HmacClock
    /\ th = [t \in Threads |-> Idle]
    /\ calls = 0
    /\ TBUnused
    /\ SWUnused
    /\ ValidatorUnused
    /\ MiddlewareUnused
    /\ SignerUnused
    /\ PaginatorUnused

NextHmac ==
    \/ /\ signed = None /\ vcall = None
       /\ \E signer \in Signers, method \in Methods, path \in Paths, body \in Bodies,
             timestamp \in {None} \cup {Some(ts) : ts \in HmacTimestamps} :
             SignRequestHmac(signer, method, path, body, timestamp)
    \/ /\ vcall = None
       /\ \E signature \in {InvalidSignature} \cup
                           (IF SignOk THEN {signed[1].out.headers["L2-API-SIGNATURE"]} ELSE {}),
             api_secret \in Secrets, method \in Methods, path \in Paths, body \in Bodies,
             timestamp \in HmacTimestamps :
             ValidateHmacSignature(signature, api_secret, method, path, body, timestamp)

SpecHmac == InitHmac /\ [][NextHmac]_vars

HmacFields == {"secret", "method", "path", "body", "timestamp"}

\* the validator was handed the signature sign_request_hmac produced
HmacRoundTrip ==
    /\ SignOk
    /\ vcall # None
    /\ vcall[1].fn = "validate_hmac_signature"
    /\ vcall[1].signature = signed[1].out.headers["L2-API-SIGNATURE"]

\* the inputs in which the validation differs from the signing
Changed ==
    LET sg == signed[1]
        vc == vcall[1]
    IN  {f \in HmacFields :
            CASE f = "secret" -> vc.api_secret # sg.signer.api_secret
              [] f = "method" -> vc.method # sg.method
              [] f = "path" -> vc.path # sg.path
              [] f = "body" -> vc.body # sg.body
              [] f = "timestamp" -> vc.timestamp # sg.out.headers["L2-API-TIMESTAMP"]}

\* the one change of input that leaves the signed message and the key the same
SameRequest ==
    LET sg == signed[1]
        vc == vcall[1]
    IN  \/ Changed = {"method"} /\ upper(vc.method) = upper(sg.method)
        \/ /\ Changed = {"secret"}
           /\ vc.api_secret # None
           /\ StripNul(vc.api_secret[1]) = StripNul(sg.signer.api_secret[1])

\* C7 as stated: the signature is accepted with identical inputs and rejected
\* whenever exactly one of method, path, body, timestamp, secret is changed.
C7_AnyChangeRejected ==
    HmacRoundTrip =>
        /\ Changed = {} => vcall[1].result
        /\ Cardinality(Changed) = 1 => ~vcall[1].result

\* C7, amended: the signature is accepted with identical inputs; with exactly
\* one input changed it is rejected, except that it is still accepted when the
\* method changes only in letter case or the secret only by trailing NULs.
C7_RoundTripSensitivity ==
    HmacRoundTrip =>
        /\ Changed = {} => vcall[1].result
        /\ Cardinality(Changed) = 1 => (vcall[1].result <=> SameRequest)

\* a signature of a lower-case method, checked against a changed body and rejected
C7_Witness ==
    /\ HmacRoundTrip
    /\ signed[1].method = <<"g", "e", "t">>
    /\ Changed = {"body"}
    /\ ~vcall[1].result

\* what the signed message is built from, for the request signed and for the
\* request validated
SignedRequest ==
    <<signed[1].out.headers["L2-API-TIMESTAMP"], upper(signed[1].method), signed[1].path,
      signed[1].body>>

ValidatedRequest ==
    <<vcall[1].timestamp, upper(vcall[1].method), vcall[1].path, vcall[1].body>>

\* C33: the signed message is injective in the request: two requests that
\* differ in (timestamp, upper-cased method, path, body) never yield the same
\* message timestamp+METHOD+path+body, so a signature issued for one request is
\* never accepted by validate_hmac_signature for a different request under the
\* same secret.
C33_MessageInjective ==
    (HmacRoundTrip /\ vcall[1].api_secret = signed[1].signer.api_secret /\ vcall[1].result)
        => ValidatedRequest = SignedRequest

-----------------------------------------------------------------------------
(* SignatureValidator.validate_timestamp and validate_nonce.  A nonce is a   *)
(* time in microseconds; here it is counted in ticks (100000 microseconds),  *)
(* so nonce_age seconds = (now - nonce) / TicksPerSecond.                    *)

MaxTimeTS == 35

MaxAge == 2

\* a check that rejects the timestamp whose age is exactly max_age_seconds
validate_timestamp_strict(timestamp, max_age_seconds, t) ==
    LET request_time == IF timestamp = None THEN None ELSE ParseInt(timestamp[1])
    IN  IF request_time = None THEN FALSE
        ELSE LET age == UnixSeconds(t) - request_time[1]
             IN  0 <= age /\ age < max_age_seconds

\* validate_timestamp at clock t; int() raising ValueError or TypeError gives False
validate_timestamp(timestamp, max_age_seconds, t) ==
    LET request_time == IF timestamp = None THEN None ELSE ParseInt(timestamp[1])
    IN  IF request_time = None THEN FALSE
        ELSE LET age == UnixSeconds(t) - request_time[1]
             IN  0 <= age /\ age <= max_age_seconds

\* a check that looks at the age of the nonce only
validate_nonce_age_only(nonce, used, max_nonce_age_seconds, t) ==
    0 <= t - nonce /\ t - nonce <= max_nonce_age_seconds * TicksPerSecond

\* validate_nonce at clock t
validate_nonce(nonce, used, max_nonce_age_seconds, t) ==
    IF nonce \in used THEN FALSE
    ELSE 0 <= t - nonce /\ t - nonce <= max_nonce_age_seconds * TicksPerSecond

TimestampChars == {"1", "2", "-", " ", "x"}

TimestampArgs == {None} \cup {Some(ts) : ts \in StrsUpTo(TimestampChars, MaxStrLen)}

Nonces == {0, 5, 15, 30, 40}

ValidateTimestamp(timestamp, max_age_seconds) ==
    /\ vcall' = Some([fn |-> "validate_timestamp", timestamp |-> timestamp,
                       max_age_seconds |-> max_age_seconds, at |-> now,
                       result |-> validate_timestamp(timestamp, max_age_seconds, now)])
    /\ UNCHANGED <<now, th, calls, tbVars, swVars, signed, mwVars, signVars, pageVars>>

ValidateNonce(nonce, used, max_nonce_age_seconds) ==
    /\ vcall' = Some([fn |-> "validate_nonce", nonce |-> nonce, used_nonces |-> used,
                       max_nonce_age_seconds |-> max_nonce_age_seconds, at |-> now,
                       result |-> validate_nonce(nonce, used,
                                                 max_nonce_age_seconds, now)])
    /\ UNCHANGED <<now, th, calls, tbVars, swVars, signed, mwVars, signVars, pageVars>>

\* the clock moves on; the result of the last call is taken
TSTick ==
    /\ now < MaxTimeTS
    /\ now' = now + 1
    /\ vcall' = None
    /\ UNCHANGED <<th, calls, tbVars, swVars, signed, mwVars, signVars, pageVars>>

InitTS ==
    /\ now = 0
    /\ th = [t \in Threads |-> Idle]
    /\ calls = 0
    /\ TBUnused
    /\ SWUnused
    /\ ValidatorUnused
    /\ MiddlewareUnused
    /\ SignerUnused
    /\ PaginatorUnused

NextTS ==
    \/ /\ vcall = None
       /\ \E timestamp \in TimestampArgs, max_age_seconds \in 0..MaxAge :
             ValidateTimestamp(timestamp, max_age_seconds)
    \/ /\ vcall = None
       /\ \E nonce \in Nonces, used \in SUBSET Nonces, max_nonce_age_seconds \in 0..MaxAge :
             ValidateNonce(nonce, used, max_nonce_age_seconds)
    \/ TSTick

SpecTS == InitTS /\ [][NextTS]_vars

TimestampCall == vcall # None /\ vcall[1].fn = "validate_timestamp"

\* the age of the timestamp argument, where it is the text of an integer
IsInteger(timestamp) == timestamp # None /\ ParseInt(timestamp[1]) # None

Age == UnixSeconds(vcall[1].at) - ParseInt(vcall[1].timestamp[1])[1]

\* C8: validate_timestamp(t, maxAge) is true iff t parses as an integer and
\* 0 <= now - t <= maxAge, now being the clock in whole seconds: age maxAge is
\* accepted, age maxAge + 1, a future timestamp and a non-integer are rejected.
C8_TimestampWindow ==
    TimestampCall =>
        LET vc == vcall[1]
        IN  /\ vc.result <=> (IsInteger(vc.timestamp) /\ 0 <= Age /\ Age <= vc.max_age_seconds)
            /\ (IsInteger(vc.timestamp) /\ Age = vc.max_age_seconds) => vc.result
            /\ (IsInteger(vc.timestamp) /\ Age = vc.max_age_seconds + 1) => ~vc.result
            /\ (IsInteger(vc.timestamp) /\ Age < 0) => ~vc.result
            /\ vc.timestamp \in {None, Some(<<"x">>), Some(<<"1", "x">>), Some(<<"-">>),
                                  Some(<<>>), Some(<<"1", " ">> \o <<"2">>)} => ~vc.result
            /\ (vc.timestamp = Some(<<"1", "2">>) /\ vc.max_age_seconds = MaxAge) =>
                  (vc.result <=> UnixSeconds(vc.at) \in 12..(12 + MaxAge))

\* a timestamp exactly max_age_seconds > 0 old, accepted
C8_Witness ==
    /\ TimestampCall
    /\ vcall[1].timestamp = Some(<<"1">>)
    /\ vcall[1].max_age_seconds = 2
    /\ UnixSeconds(vcall[1].at) = 3
    /\ vcall[1].result

NonceCall == vcall # None /\ vcall[1].fn = "validate_nonce"

\* C9: validate_nonce returns false for every nonce in used_nonces, whatever
\* its age and whatever max_nonce_age_seconds.
C9_UsedNonceRejected ==
    NonceCall => (vcall[1].nonce \in vcall[1].used_nonces => ~vcall[1].result)

\* a used nonce that is young enough to be accepted were it not used
C9_Witness ==
    /\ NonceCall
    /\ vcall[1].nonce \in vcall[1].used_nonces
    /\ vcall[1].nonce = 15
    /\ vcall[1].at = 20
    /\ vcall[1].max_nonce_age_seconds = 1
    /\ ~vcall[1].result

-----------------------------------------------------------------------------
(* AuthMiddleware.validate_request *)

MaxClockSteps == 2

DefaultMaxNonceAge == 3600

RECURSIVE Rep(_, _)
\* str * n
Rep(str, n) == IF n = 0 THEN <<>> ELSE str \o Rep(str, n - 1)

HexChars == {"0", "1", "2", "3", "4", "5", "6", "7", "8", "9",
             "a", "b", "c", "d", "e", "f", "A", "B", "C", "D", "E", "F"}

\* hex digits, single underscores allowed between them
HexRun(str) ==
    /\ str # <<>>
    /\ \A i \in 1..Len(str) : str[i] \in HexChars \/ str[i] = "_"
    /\ str[Len(str)] # "_"
    /\ \A i \in 1..(Len(str) - 1) : ~(str[i] = "_" /\ str[i + 1] = "_")

\* whether int(str, 16) returns: blanks around, a sign and a 0x prefix are allowed
IsBase16Int(str) ==
    LET body == RStrip(LStrip(str))
        unsigned == IF body # <<>> /\ body[1] \in {"-", "+"} THEN Tail(body) ELSE body
        prefixed == Len(unsigned) >= 2 /\ unsigned[1] = "0" /\ unsigned[2] \in {"x", "X"}
    IN  IF prefixed THEN HexRun(SubSeq(unsigned, 3, Len(unsigned)))
        ELSE HexRun(unsigned) /\ unsigned[1] # "_"

validate_address_format(address) ==
    IF ~(Len(address) >= 2 /\ address[1] = "0" /\ address[2] = "x") THEN FALSE
    ELSE LET address_hex == SubSeq(address, 3, Len(address))
         IN  IF Len(address_hex) # 40 THEN FALSE ELSE IsBase16Int(address_hex)

PolyHeaderNames == {"POLY_ADDRESS", "POLY_SIGNATURE", "POLY_TIMESTAMP", "POLY_NONCE"}

AuthHeaderNames == HmacHeaderNames \cup PolyHeaderNames

\* headers.get(name, default)
Get(headers, name, default) == IF name \in DOMAIN headers THEN headers[name] ELSE default

\* a detection that is content with any one header of the scheme
has_hmac_headers_any(headers) == \E header \in HmacHeaderNames : header \in DOMAIN headers

has_hmac_headers(headers) == \A header \in HmacHeaderNames : header \in DOMAIN headers

has_eip712_headers(headers) == \A header \in PolyHeaderNames : header \in DOMAIN headers

\* x or default, for an optional string
OrDefault(opt, default) == IF Truthy(opt) THEN opt[1] ELSE default

\* _validate_hmac_request at clock t
validate_hmac_request(request, headers, api_secret, t) ==
    IF ~Truthy(api_secret) THEN "False"
    ELSE LET timestamp == Get(headers, "L2-API-TIMESTAMP", <<>>)
         IN  IF ~validate_timestamp(Some(timestamp), mw.max_timestamp_age, t) THEN "False"
             ELSE IF validate_hmac_signature(Get(headers, "L2-API-SIGNATURE", <<>>),
                                             api_secret,
                                             OrDefault(request.method, <<"G", "E", "T">>),
                                             OrDefault(request.path_url, <<"/">>),
                                             OrDefault(request.body, <<>>), timestamp)
                  THEN "True" ELSE "False"

\* the validators an AuthMiddleware may be built with: the default
\* SignatureValidator(), or a SignatureValidator of the caller's that also
\* defines validate_eip712_signature
Validators == {"SignatureValidator", "WalletValidator"}

\* self.validator.validate_eip712_signature: SignatureValidator has no such
\* method; verdict is what the caller's validator answers
validate_eip712_signature(signature, address, message, nonce, timestamp, verdict) ==
    IF mw.validator = "SignatureValidator" THEN "AttributeError"
    ELSE IF verdict THEN "True" ELSE "False"

\* a middleware that forgets the nonce it has just validated
add_nonce_skip(used, nonce) == used

\* self.used_nonces.add(nonce)
add_nonce(used, nonce) == used \cup {nonce}

Rejected(used) == [result |-> "False", used |-> used, passed |-> None]

\* _validate_eip712_request at clock t: the outcome, used_nonces after it, and
\* the nonce that passed validate_nonce
validate_eip712_request(request, headers, used, t, verdict) ==
    LET address == Get(headers, "POLY_ADDRESS", <<>>)
        timestamp == Get(headers, "POLY_TIMESTAMP", <<>>)
        nonce == ParseInt(Get(headers, "POLY_NONCE", <<"0">>))
        signature == Get(headers, "POLY_SIGNATURE", <<>>)
    IN  IF ~validate_address_format(address) THEN Rejected(used)
        ELSE IF ~validate_timestamp(Some(timestamp), mw.max_timestamp_age, t)
        THEN Rejected(used)
        ELSE IF nonce = None THEN Rejected(used)
        ELSE IF mw.enable_nonce_tracking
                  /\ ~validate_nonce(nonce[1], used, DefaultMaxNonceAge, t)
        THEN Rejected(used)
        ELSE [result |-> validate_eip712_signature(signature, address, "attest", nonce[1],
                                                   timestamp, verdict),
              used |-> IF mw.enable_nonce_tracking THEN add_nonce(used, nonce[1]) ELSE used,
              passed |-> IF mw.enable_nonce_tracking THEN nonce ELSE None]

\* validate_request at clock t: the outcome, used_nonces after it, and the
\* nonce that passed validate_nonce
validate_request(request, api_secret, used, t, verdict) ==
    LET headers == request.headers
    IN  IF has_hmac_headers(headers)
        THEN [result |-> validate_hmac_request(request, headers, api_secret, t),
              used |-> used, passed |-> None]
        ELSE IF has_eip712_headers(headers)
        THEN validate_eip712_request(request, headers, used, t, verdict)
        ELSE Rejected(used)

ValidAddress == <<"0", "x">> \o Rep(<<"a", "b">>, 20)

InvalidAddress == <<"n", "o", "t", "_", "a", "n", "_", "a", "d", "d", "r", "e", "s", "s">>

TestSecret == Some(<<"s">>)

RequestMethod == Some(<<"g", "e", "t">>)

RequestPath == Some(<<"/">>)

\* the L2-API-SIGNATURE that TestSecret gives the request for a timestamp
SignatureFor(timestamp) ==
    sign_request_hmac([api_key |-> Some(<<"K">>), api_secret |-> TestSecret,
                       api_passphrase |-> Some(<<"P">>)],
                      RequestMethod[1], RequestPath[1], <<>>, Some(timestamp), 0
                     ).headers["L2-API-SIGNATURE"]

AuthTimestamps == {<<"0">>, IntToStr(DefaultMaxNonceAge)}

NonceTexts == {<<"0">>, <<"1">>, <<"x">>}

\* the values the eight authentication headers may carry
HeaderValues ==
    {[h \in AuthHeaderNames |->
         CASE h = "L2-API-KEY" -> <<"K">>
           [] h = "L2-API-PASSPHRASE" -> <<"P">>
           [] h = "L2-API-TIMESTAMP" -> v.ts
           [] h = "L2-API-SIGNATURE" -> IF v.signed THEN SignatureFor(v.ts) ELSE InvalidSignature
           [] h = "POLY_ADDRESS" -> v.address
           [] h = "POLY_SIGNATURE" -> <<"0", "x">> \o [i \in 1..130 |-> "a"]
           [] h = "POLY_TIMESTAMP" -> v.ts
           [] h = "POLY_NONCE" -> v.nonce] :
        v \in [ts : AuthTimestamps, signed : BOOLEAN,
               address : {ValidAddress, InvalidAddress}, nonce : NonceTexts]}

DefaultHeaders ==
    CHOOSE hv \in HeaderValues :
        /\ hv["L2-API-TIMESTAMP"] = <<"0">>
        /\ hv["L2-API-SIGNATURE"] # InvalidSignature
        /\ hv["POLY_ADDRESS"] = ValidAddress
        /\ hv["POLY_NONCE"] = <<"1">>

Restrict(f, dom) == [x \in dom |-> f[x]]

\* requests with any subset of the headers, and requests with a complete
\* header set of one scheme or of both, carrying any of the values
RequestHeaders ==
    {Restrict(DefaultHeaders, present) : present \in SUBSET AuthHeaderNames}
        \cup {Restrict(hv, present) :
                 hv \in HeaderValues,
                 present \in {HmacHeaderNames, PolyHeaderNames, AuthHeaderNames}}

PreparedRequests ==
    {[headers |-> h, method |-> RequestMethod, path_url |-> RequestPath, body |-> None] :
        h \in RequestHeaders}

MaxPasses == 3

ValidateRequest(request, api_secret, verdict) ==
    LET out == validate_request(request, api_secret, used_nonces, now, verdict)
    IN  /\ Len(consumed) < MaxPasses
        /\ vreq' = Some([request |-> request, api_secret |-> api_secret, at |-> now,
                          result |-> out.result])
        /\ used_nonces' = out.used
        /\ consumed' = IF out.passed = None THEN consumed ELSE Append(consumed, out.passed[1])
        /\ UNCHANGED <<now, th, calls, tbVars, swVars, signed, vcall, mw, cleanup, inflight, signVars,
                       pageVars>>

\* the caller takes the answer
ValidateReturn ==
    /\ vreq # None
    /\ vreq' = None
    /\ UNCHANGED <<now, th, calls, tbVars, swVars, signed, vcall, mw, used_nonces, consumed, cleanup, inflight,
                 signVars, pageVars>>

ClockSteps == {1, TicksPerSecond, DefaultMaxNonceAge * TicksPerSecond}

\* the clock moves on between two calls
AuthTick(d) ==
    /\ vreq = None
    /\ calls < MaxClockSteps
    /\ calls' = calls + 1
    /\ now' = now + d
    /\ UNCHANGED <<th, tbVars, swVars, authVars, pageVars>>

InitAuth ==
    /\ now = 0
    /\ th = [t \in Threads |-> Idle]
    /\ calls = 0
    /\ TBUnused
    /\ SWUnused
    /\ ValidatorUnused
    /\ mw \in [validator : Validators, max_timestamp_age : {1},
                enable_nonce_tracking : BOOLEAN]
    /\ used_nonces = {}
    /\ vreq = None
    /\ consumed = <<>>
    /\ cleanup = None
    /\ inflight = [t \in Threads |-> None]
    /\ SignerUnused
    /\ PaginatorUnused

NextAuth ==
    \/ /\ vreq = None
       /\ \E request \in PreparedRequests, api_secret \in {None, TestSecret},
               verdict \in BOOLEAN :
             ValidateRequest(request, api_secret, verdict)
    \/ ValidateReturn
    \/ \E d \in ClockSteps : AuthTick(d)

SpecAuth == InitAuth /\ [][NextAuth]_vars

Headers == vreq[1].request.headers

-----------------------------------------------------------------------------
(* AuthMiddleware.cleanup_nonces, called by the host between validate_request *)
(* calls                                                                      *)

\* a cleanup that keeps the nonce that is exactly at the horizon
cleanup_nonces_keep_horizon(self, used, max_age_seconds, t) ==
    IF ~self.enable_nonce_tracking THEN used
    ELSE {nonce \in used : nonce >= t - max_age_seconds * TicksPerSecond}

\* cleanup_nonces at clock t: used_nonces after it
cleanup_nonces(self, used, max_age_seconds, t) ==
    IF ~self.enable_nonce_tracking THEN used
    ELSE LET current_time == t
             cutoff_time == current_time - max_age_seconds * TicksPerSecond
         IN  {nonce \in used : nonce > cutoff_time}

CleanupAges == {0, 1, DefaultMaxNonceAge}

CleanupNonces(max_age_seconds) ==
    /\ vreq = None
    /\ cleanup = None
    /\ cleanup' = Some([max_age_seconds |-> max_age_seconds, at |-> now,
                         before |-> used_nonces])
    /\ used_nonces' = cleanup_nonces(mw, used_nonces, max_age_seconds, now)
    /\ UNCHANGED <<now, th, calls, tbVars, swVars, signed, vcall, mw, vreq, consumed, inflight, signVars,
                   pageVars>>

\* cleanup_nonces returns
CleanupReturn ==
    /\ cleanup # None
    /\ cleanup' = None
    /\ UNCHANGED <<now, th, calls, tbVars, swVars, signed, vcall, mw, used_nonces, vreq,
                   consumed, inflight, signVars, pageVars>>

NextClean ==
    \/ cleanup = None /\ NextAuth
    \/ \E max_age_seconds \in CleanupAges : CleanupNonces(max_age_seconds)
    \/ CleanupReturn

SpecClean == InitAuth /\ [][NextClean]_vars

\* the nonces a middleware may hold, and middlewares with and without tracking
NonceSets == SUBSET {0, 1, 2}

Trackings == {[mw EXCEPT !.enable_nonce_tracking = b] : b \in BOOLEAN}

\* what cleanup_nonces leaves of a set: with tracking, exactly the nonces
\* younger than the horizon; without tracking, the set as it was
CleanupExact ==
    \A self \in Trackings, used \in NonceSets, max_age_seconds \in CleanupAges :
        LET after == cleanup_nonces(self, used, max_age_seconds, now)
            horizon == now - max_age_seconds * TicksPerSecond
        IN  /\ after \subseteq used
            /\ self.enable_nonce_tracking =>
                  \A nonce \in used : nonce \in after <=> ~(nonce <= horizon)
            /\ ~self.enable_nonce_tracking => after = used

\* a cleanup_nonces call has done to used_nonces what CleanupExact says
CleanupDone ==
    cleanup # None =>
        LET horizon == cleanup[1].at - cleanup[1].max_age_seconds * TicksPerSecond
        IN  /\ used_nonces \subseteq cleanup[1].before
            /\ \A nonce \in cleanup[1].before :
                  nonce \in used_nonces <=>
                      (mw.enable_nonce_tracking => ~(nonce <= horizon))

\* nothing but a cleanup_nonces call takes a nonce out of used_nonces
PrunedByCleanupOnly ==
    ~(used_nonces \subseteq used_nonces') => (cleanup = None /\ cleanup' # None)

\* C24: cleanup_nonces(maxAge) removes from used_nonces exactly the nonces
\* older than the horizon (value <= now - maxAge) and keeps every younger one;
\* it never adds a nonce, it changes nothing when nonce tracking is disabled,
\* and nothing but a cleanup_nonces call prunes used_nonces.
C24_CleanupExact == [](CleanupExact /\ CleanupDone) /\ [][PrunedByCleanupOnly]_vars

\* nonces 0 and 1 were consumed; cleanup_nonces(1) one second after nonce 0 was
\* minted removes nonce 0, which is exactly at the horizon, and keeps nonce 1
C24_Witness ==
    /\ cleanup # None
    /\ cleanup[1].before = {0, 1}
    /\ cleanup[1].max_age_seconds = 1
    /\ cleanup[1].at = TicksPerSecond
    /\ used_nonces = {1}

\* every nonce the last cleanup_nonces call removed is one validate_nonce no
\* longer accepts
RemovedTooOld ==
    cleanup # None =>
        \A nonce \in cleanup[1].before \ used_nonces :
            ~validate_nonce(nonce, {}, DefaultMaxNonceAge, cleanup[1].at)

\* C31: replay protection survives maintenance: for any sequence of
\* validate_request and cleanup_nonces calls (any horizons, nonce tracking
\* enabled), a nonce that has once passed nonce validation never passes it
\* again; equivalently, every nonce that cleanup_nonces removes is already too
\* old to be accepted by validate_nonce.
C31_ReplaySurvivesCleanup ==
    mw.enable_nonce_tracking =>
        /\ RemovedTooOld
        /\ \A i, j \in DOMAIN consumed : i < j => consumed[i] # consumed[j]

-----------------------------------------------------------------------------
(* validate_request called by several threads on one AuthMiddleware. The
   middleware holds no lock: validate_nonce reads used_nonces
   (auth_middleware.py:217) and used_nonces.add writes it (line 219) in two
   steps of the caller; nothing else of the call touches shared state. *)

\* requests of the wallet scheme: the POLY_* headers and not the L2-API-* ones
WalletRequests ==
    {request \in PreparedRequests :
        has_eip712_headers(request.headers) /\ ~has_hmac_headers(request.headers)}

\* validate_request up to the answer of validate_nonce: a request that fails a
\* check, or is not tracked, is answered at once
ValidateStart(t, request, verdict) ==
    LET out == validate_request(request, None, used_nonces, now, verdict)
    IN  /\ inflight[t] = None
        /\ Len(consumed) < MaxPasses
        /\ inflight' = [inflight EXCEPT ![t] =
                            Some([pc |-> IF out.passed = None THEN "done" ELSE "add",
                                  nonce |-> out.passed, result |-> out.result])]
        /\ UNCHANGED <<now, th, calls, tbVars, swVars, signed, vcall, mw, used_nonces, vreq,
                       consumed, cleanup, signVars, pageVars>>

\* self.used_nonces.add(nonce), and the signature check after it
ValidateAdd(t) ==
    /\ inflight[t] # None
    /\ inflight[t][1].pc = "add"
    /\ used_nonces' = add_nonce(used_nonces, inflight[t][1].nonce[1])
    /\ consumed' = Append(consumed, inflight[t][1].nonce[1])
    /\ inflight' = [inflight EXCEPT ![t][1].pc = "done"]
    /\ UNCHANGED <<now, th, calls, tbVars, swVars, signed, vcall, mw, vreq, cleanup,
                   signVars, pageVars>>

\* the caller takes the answer
ValidateDone(t) ==
    /\ inflight[t] # None
    /\ inflight[t][1].pc = "done"
    /\ inflight' = [inflight EXCEPT ![t] = None]
    /\ UNCHANGED <<now, th, calls, tbVars, swVars, signed, vcall, mw, used_nonces, vreq,
                   consumed, cleanup, signVars, pageVars>>

NextRace ==
    \/ \E t \in Threads, request \in WalletRequests, verdict \in BOOLEAN :
          ValidateStart(t, request, verdict)
    \/ \E t \in Threads : ValidateAdd(t)
    \/ \E t \in Threads : ValidateDone(t)
    \/ \E d \in ClockSteps : AuthTick(d)

SpecRace == InitAuth /\ [][NextRace]_vars

\* the call of thread t has passed validate_nonce
PassedNonce(t) == inflight[t] # None /\ inflight[t][1].nonce # None

\* C28: when two threads call validate_request concurrently on one
\* AuthMiddleware with wallet-scheme requests of the same nonce, at most one of
\* them passes nonce validation: the membership check and the insertion into
\* used_nonces are one atomic step.
C28_OnePassesPerNonce ==
    \A t, u \in Threads :
        (t # u /\ PassedNonce(t) /\ PassedNonce(u))
            => inflight[t][1].nonce # inflight[u][1].nonce

\* C10: validate_request returns false for every request whose headers hold
\* neither all four L2-API-* nor all four POLY_* headers: three of the four
\* headers of a scheme do not make the scheme present.
C10_FailClosed ==
    vreq # None =>
        ((~(HmacHeaderNames \subseteq DOMAIN Headers)
            /\ ~(PolyHeaderNames \subseteq DOMAIN Headers))
         => vreq[1].result = "False")

\* a request signed with the right secret one second ago, sent without its
\* L2-API-PASSPHRASE and without POLY_NONCE, is rejected
C10_Witness ==
    /\ vreq # None
    /\ vreq[1].api_secret = TestSecret
    /\ DOMAIN Headers = AuthHeaderNames \ {"L2-API-PASSPHRASE", "POLY_NONCE"}
    /\ Headers["L2-API-SIGNATURE"] = SignatureFor(<<"0">>)
    /\ Headers["L2-API-TIMESTAMP"] = <<"0">>
    /\ UnixSeconds(vreq[1].at) = 1
    /\ vreq[1].result = "False"

Range(seq) == {seq[i] : i \in DOMAIN seq}

\* the request is one that validate_request hands to the wallet path
WalletScheme(headers) == ~has_hmac_headers(headers) /\ has_eip712_headers(headers)

NonceOf(headers) == ParseInt(headers["POLY_NONCE"])

NoNonceTwice == \A i, j \in DOMAIN consumed : i # j => consumed[i] # consumed[j]

\* a call on a wallet request whose nonce an earlier call consumed
ReplayRejected ==
    (vreq = None /\ vreq' # None) =>
        LET headers == vreq'[1].request.headers
        IN  (/\ mw.enable_nonce_tracking
             /\ WalletScheme(headers)
             /\ NonceOf(headers) # None
             /\ NonceOf(headers)[1] \in Range(consumed))
            => (vreq'[1].result = "False" /\ consumed' = consumed)

\* C11: with nonce tracking enabled, in a series of validate_request calls on
\* one AuthMiddleware a wallet request whose nonce was consumed by an earlier
\* call is rejected, and no nonce passes nonce validation twice.
C11_AtMostOnce == []NoNonceTwice /\ [][ReplayRejected]_vars

\* nonce 1 was consumed, and a second wallet request with nonce 1, a valid
\* address and a fresh timestamp, inside the nonce's age window, is rejected
C11_Witness ==
    /\ vreq # None
    /\ mw.enable_nonce_tracking
    /\ WalletScheme(Headers)
    /\ Headers["POLY_ADDRESS"] = ValidAddress
    /\ Headers["POLY_TIMESTAMP"] = <<"0">>
    /\ Headers["POLY_NONCE"] = <<"1">>
    /\ vreq[1].at = 2
    /\ consumed = <<1>>
    /\ vreq[1].result = "False"

\* C12: whenever validate_request accepts a wallet request with nonce
\* tracking enabled, the request's nonce is in used_nonces when the call returns.
C12_AcceptedNonceRecorded ==
    (/\ vreq # None
     /\ vreq[1].result = "True"
     /\ WalletScheme(Headers)
     /\ mw.enable_nonce_tracking)
    => (NonceOf(Headers) # None /\ NonceOf(Headers)[1] \in used_nonces)

\* a wallet request with nonce 1 accepted by a middleware that tracks nonces
C12_Witness ==
    /\ vreq # None
    /\ vreq[1].result = "True"
    /\ WalletScheme(Headers)
    /\ mw.enable_nonce_tracking
    /\ Headers["POLY_NONCE"] = <<"1">>
    /\ used_nonces = {0, 1}

\* a call that does not accept the request leaves used_nonces as it was
RejectionKeepsNonces ==
    (vreq = None /\ vreq' # None /\ vreq'[1].result # "True") => used_nonces' = used_nonces

\* C32: a validate_request call that does not accept the request leaves
\* used_nonces unchanged: a nonce is consumed only by a request that is
\* accepted, so a request with an invalid signature cannot burn a nonce.
C32_RejectedLeavesNonces == [][RejectionKeepsNonces]_vars

\* C13: validate_request ends with a boolean for every request and never
\* raises; a wallet request with a well-formed address, a fresh timestamp and
\* a fresh nonce is decided, true or false, by signature verification.
C13_BooleanOutcome == vreq # None => vreq[1].result \in {"True", "False"}

-----------------------------------------------------------------------------
(* RequestSigner.create_auth_signature, PolymarketAuth and create_auth_session *)

\* "k" is a key Account.from_key accepts, "x" one it refuses
PrivateKeys == {None, Some(<<>>), Some(<<"k">>), Some(<<"x">>)}

ValidKey(private_key) == private_key = <<"k">>

\* Account.from_key(private_key).address
AddressOf(private_key) == ValidAddress

\* RequestSigner.__init__; web3 is WEB3_AVAILABLE
RequestSigner(api_key, api_secret, api_passphrase, private_key, web3) ==
    [api_key |-> api_key, api_secret |-> api_secret, api_passphrase |-> api_passphrase,
     private_key |-> private_key, web3 |-> web3,
     account |-> IF Truthy(private_key) /\ web3 /\ ValidKey(private_key[1])
                 THEN Some([address |-> AddressOf(private_key[1]), key |-> private_key[1]])
                 ELSE None]

\* account.sign_message(encode_defunct(text=message)).signature.hex(), 0x-prefixed
sign_message(account, message) == <<"0x", "signature", account.key, message>>

\* a signer that signs with whatever account it has
create_auth_signature_unchecked(signer, address, timestamp, nonce, t) ==
    [raised |-> "none",
     signature |-> Some(<<"0x", "signature", signer.private_key, address, timestamp, nonce>>)]

\* create_auth_signature at clock t: the signature, or the error raised
create_auth_signature(signer, address, timestamp, nonce, t) ==
    IF ~Truthy(signer.private_key) THEN [raised |-> "ValueError", signature |-> None]
    ELSE IF ~signer.web3 THEN [raised |-> "ValueError", signature |-> None]
    ELSE LET ts == IF timestamp = None THEN IntToStr(UnixSeconds(t)) ELSE timestamp[1]
             n == IF nonce = None THEN t ELSE nonce[1]
         IN  IF signer.account = None THEN [raised |-> "ValueError", signature |-> None]
             ELSE [raised |-> "none",
                   signature |-> Some(sign_message(signer.account[1], <<address, ts, n>>))]

\* request.headers.update(headers)
update(old, new) ==
    [h \in DOMAIN old \cup DOMAIN new |-> IF h \in DOMAIN new THEN new[h] ELSE old[h]]

\* PolymarketAuth._sign_hmac at clock t
sign_hmac(auth, request, t) ==
    LET out == sign_request_hmac(auth.signer, OrDefault(request.method, <<"G", "E", "T">>),
                                 OrDefault(request.path_url, <<"/">>),
                                 OrDefault(request.body, <<>>), None, t)
    IN  IF out.raised # "none" THEN [raised |-> out.raised, request |-> request]
        ELSE [raised |-> "none",
              request |-> [request EXCEPT !.headers = update(request.headers, out.headers)]]

\* PolymarketAuth._sign_eip712 at clock t
sign_eip712(auth, request, t) ==
    IF auth.signer.account = None THEN [raised |-> "ValueError", request |-> request]
    ELSE LET address == auth.signer.account[1].address
             timestamp == IntToStr(UnixSeconds(t))
             out == create_auth_signature(auth.signer, address, Some(timestamp), Some(t), t)
         IN  IF out.raised # "none" THEN [raised |-> out.raised, request |-> request]
             ELSE [raised |-> "none",
                   request |-> [request EXCEPT !.headers =
                       update(request.headers,
                              [h \in PolyHeaderNames |->
                                  CASE h = "POLY_ADDRESS" -> address
                                    [] h = "POLY_SIGNATURE" -> out.signature[1]
                                    [] h = "POLY_TIMESTAMP" -> timestamp
                                    [] h = "POLY_NONCE" -> IntToStr(t)])]]

\* PolymarketAuth.__call__ at clock t: the request as it leaves, or the error raised
auth_call(auth, request, t) ==
    IF auth.signature_method = "hmac" THEN sign_hmac(auth, request, t)
    ELSE IF auth.signature_method = "eip712" THEN sign_eip712(auth, request, t)
    ELSE [raised |-> "none", request |-> request]

SessionHeaders == [h \in {"Content-Type", "User-Agent"} |-> <<"v">>]

\* AuthMiddleware.create_auth_session
create_auth_session(api_key, api_secret, api_passphrase, private_key, signature_method, web3) ==
    [auth |-> [signer |-> RequestSigner(api_key, api_secret, api_passphrase, private_key, web3),
               signature_method |-> signature_method],
     headers |-> SessionHeaders]

CreateAuthSignature(signer, address, timestamp, nonce) ==
    /\ sigcall = None
    /\ sigcall' = Some([signer |-> signer, address |-> address, timestamp |-> timestamp,
                         nonce |-> nonce,
                         out |-> create_auth_signature(signer, address, timestamp, nonce, now)])
    /\ UNCHANGED <<now, th, calls, tbVars, swVars, signed, vcall, mwVars, sent, pageVars>>

\* a request is sent on the session: the session's headers are merged in and
\* session.auth is applied to it
SessionSend(session, request) ==
    /\ sent = None
    /\ sent' = Some([session |-> session,
                      out |-> auth_call(session.auth,
                                        [request EXCEPT !.headers = update(session.headers, @)],
                                        now)])
    /\ UNCHANGED <<now, th, calls, tbVars, swVars, signed, vcall, mwVars, sigcall, pageVars>>

SignatureMethods == {"hmac", "eip712", "HMAC", "eip-712"}

Credentials == {None, Some(<<>>), Some(<<"c">>)}

WalletSigners ==
    {RequestSigner(None, None, None, private_key, web3) :
        private_key \in PrivateKeys, web3 \in BOOLEAN}

Sessions ==
    {create_auth_session(api_key, api_secret, api_passphrase, private_key,
                         signature_method, web3) :
        api_key \in Credentials, api_secret \in Credentials, api_passphrase \in Credentials,
        private_key \in PrivateKeys, signature_method \in SignatureMethods,
        web3 \in BOOLEAN}

OutgoingRequests ==
    {[headers |-> h, method |-> RequestMethod, path_url |-> RequestPath, body |-> None] :
        h \in {<<>>, [x \in {"Accept"} |-> <<"v">>]}}

InitSign ==
    /\ now \in HmacClock
    /\ th = [t \in Threads |-> Idle]
    /\ calls = 0
    /\ TBUnused
    /\ SWUnused
    /\ ValidatorUnused
    /\ MiddlewareUnused
    /\ SignerUnused
    /\ PaginatorUnused

NextSign ==
    \/ /\ signed = None /\ sent = None
       /\ \E signer \in Signers, method \in Methods,
             timestamp \in {None} \cup {Some(ts) : ts \in HmacTimestamps} :
             SignRequestHmac(signer, method, <<"/">>, <<>>, timestamp)
    \/ /\ sigcall = None /\ sent = None
       /\ \E signer \in WalletSigners, timestamp \in {None, Some(<<"0">>)},
             nonce \in {None, Some(5)} :
             CreateAuthSignature(signer, ValidAddress, timestamp, nonce)
    \/ /\ sent = None /\ signed = None /\ sigcall = None
       /\ \E session \in Sessions, request \in OutgoingRequests :
             SessionSend(session, request)

SpecSign == InitSign /\ [][NextSign]_vars

Leaving == sent[1].out.request.headers

\* C14: every request that passes through the authenticator of a session built
\* by create_auth_session leaves with the four L2-API-* headers or the four
\* POLY_* headers, or the call fails with an error: for no value of
\* signature_method is a request transmitted unsigned.
C14_NeverUnsigned ==
    sent # None =>
        \/ sent[1].out.raised # "none"
        \/ HmacHeaderNames \subseteq DOMAIN Leaving
        \/ PolyHeaderNames \subseteq DOMAIN Leaving

\* empty or absent
Missing(opt) == opt = None \/ opt[1] = <<>>

\* C15: sign_request_hmac fails with ValueError and gives no headers when the
\* api key, the secret or the passphrase is empty or absent;
\* create_auth_signature fails with ValueError and gives no signature when no
\* private key is configured.
C15_MissingCredentials ==
    /\ signed # None =>
          ((\/ Missing(signed[1].signer.api_key)
            \/ Missing(signed[1].signer.api_secret)
            \/ Missing(signed[1].signer.api_passphrase))
           => (signed[1].out.raised = "ValueError" /\ signed[1].out.headers = <<>>))
    /\ sigcall # None =>
          (Missing(sigcall[1].signer.private_key)
           => (sigcall[1].out.raised = "ValueError" /\ sigcall[1].out.signature = None))

\* both failures: a signer with an empty secret asked for HMAC headers, and a
\* signer without a private key asked for a wallet signature
C15_Witness ==
    /\ signed # None
    /\ signed[1].signer.api_key # None
    /\ signed[1].signer.api_secret = Some(<<>>)
    /\ signed[1].signer.api_passphrase # None
    /\ signed[1].out.raised = "ValueError"
    /\ sigcall # None
    /\ sigcall[1].signer.private_key = None
    /\ sigcall[1].signer.web3
    /\ sigcall[1].out.raised = "ValueError"

-----------------------------------------------------------------------------
(* Paginator and OffsetPaginationStrategy *)

MaxItems == 5

MaxPageSize == 2

MaxK == 3

MaxFetches == 7

\* a number used as a condition: None and 0 are false
TruthyInt(opt) == opt # None /\ opt[1] # 0

\* the fetch function: the source answers limit and offset with that slice of its items
fetch_func(items, limit, offset) ==
    SubSeq(items, offset + 1, Min(offset + limit, Len(items)))

\* create_offset_paginator(config, initial_offset): the strategy and the paginator
create_offset_paginator(config, initial_offset) ==
    [strategy |-> [page_size |-> Min(config.default_page_size, config.max_page_size),
                   max_page_size |-> config.max_page_size,
                   current_offset |-> initial_offset],
     default_page_size |-> config.default_page_size,
     max_total_results |-> config.max_total_results,
     auto_paginate |-> config.enable_auto_pagination]

\* kwargs["limit"] and kwargs["offset"] as fetch_page completes them
PageLimit(strategy, params) == IF params.limit = None THEN strategy.page_size ELSE params.limit[1]

PageOffset(strategy, params) ==
    IF params.offset = None THEN strategy.current_offset ELSE params.offset[1]

\* a strategy that expects more pages as long as a page is not empty
fetch_page_nonempty(strategy, items, params) ==
    LET data == fetch_func(items, PageLimit(strategy, params), PageOffset(strategy, params))
    IN  [data |-> data, has_more |-> Len(data) > 0]

\* OffsetPaginationStrategy.fetch_page: the data and has_more
fetch_page(strategy, items, params) ==
    LET data == fetch_func(items, PageLimit(strategy, params), PageOffset(strategy, params))
    IN  [data |-> data, has_more |-> Len(data) = PageLimit(strategy, params)]

\* OffsetPaginationStrategy.get_next_page_params
get_next_page_params(strategy, current_params) ==
    [current_params EXCEPT
        !.offset = Some((IF current_params.offset = None THEN 0 ELSE current_params.offset[1])
                        + (IF current_params.limit = None THEN strategy.page_size
                           ELSE current_params.limit[1]))]

\* all_results[:limit]
Truncate(all_results, limit) ==
    IF TruthyInt(limit) /\ Len(all_results) > limit[1]
    THEN SubSeq(all_results, 1, limit[1]) ELSE all_results

\* a fetch_all that leaves a missing limit missing
EffectiveLimit_unset(paginator, limit) == limit

\* the limit fetch_all works with
EffectiveLimit(paginator, limit) ==
    IF ~paginator.auto_paginate /\ limit = None THEN Some(paginator.default_page_size)
    ELSE limit

\* PaginationInfo.from_offset
from_offset(offset, limit, total_returned, requested_limit) ==
    [page |-> (offset \div limit) + 1, per_page |-> limit,
     has_next |-> total_returned = requested_limit, has_previous |-> offset > 0]

\* a client built on a config: its paginator, the source behind its endpoint,
\* and no call yet
NewPaginator(config, initial_offset, items) ==
    [config |-> config, paginator |-> create_offset_paginator(config, initial_offset),
     items |-> items,
     fn |-> "none", limit_arg |-> None, offset_arg |-> None, page_size_arg |-> None,
     auto_arg |-> None, auto_paginate |-> config.enable_auto_pagination,
     limit |-> None, params |-> [limit |-> None, offset |-> None],
     all_results |-> <<>>, fetches |-> <<>>, pc |-> "idle", result |-> <<>>, info |-> None,
     raised |-> "none", detail |-> "", response |-> "none", page |-> <<>>, more |-> TRUE, want |-> FALSE]

PageVarsUnchanged == UNCHANGED <<now, th, calls, tbVars, swVars, authVars>>

\* fetch_all(limit, **kwargs) and fetch_paginated(limit, **kwargs) up to the loop
StartFetch(fn, limit, offset) ==
    /\ pg.pc = "idle"
    /\ pg' = [pg EXCEPT !.fn = fn, !.limit_arg = limit, !.offset_arg = offset,
                        !.limit = EffectiveLimit(pg.paginator, limit),
                        !.params = [limit |-> None, offset |-> offset],
                        !.pc = "loop"]
    /\ PageVarsUnchanged

FetchAll(limit, offset) == StartFetch("fetch_all", limit, offset)

FetchPaginated(limit, offset) == StartFetch("fetch_paginated", limit, offset)

\* the end of fetch_all, and of fetch_paginated around it
Finish(rec, all_results, fetches) ==
    LET data == Truncate(all_results, rec.limit)
        page_size == rec.paginator.default_page_size
    IN  [rec EXCEPT !.all_results = all_results, !.fetches = fetches, !.pc = "done",
                    !.result = data,
                    !.info = IF rec.fn = "fetch_paginated"
                             THEN Some(from_offset(
                                      IF rec.offset_arg = None THEN 0 ELSE rec.offset_arg[1],
                                      page_size, Len(data),
                                      IF TruthyInt(rec.limit_arg) THEN rec.limit_arg[1]
                                      ELSE page_size))
                             ELSE None]

\* a fetch_all that never looks at max_total_results
cap_reached_never(paginator, all_results) == FALSE

\* self.max_total_results and len(all_results) >= self.max_total_results
cap_reached(paginator, all_results) ==
    TruthyInt(paginator.max_total_results)
        /\ Len(all_results) >= paginator.max_total_results[1]

\* one turn of the loop of fetch_all
FetchAllStep ==
    /\ pg.pc = "loop"
    /\ Len(pg.fetches) < MaxFetches
    /\ LET paginator == pg.paginator
           remaining == pg.limit[1] - Len(pg.all_results)
       IN  IF TruthyInt(pg.limit) /\ remaining <= 0
           THEN pg' = Finish(pg, pg.all_results, pg.fetches)
           ELSE LET params == IF TruthyInt(pg.limit)
                              THEN [pg.params EXCEPT
                                      !.limit = Some(Min(paginator.default_page_size, remaining))]
                              ELSE pg.params
                    page == fetch_page(paginator.strategy, pg.items, params)
                    all_results == pg.all_results \o page.data
                    fetches == Append(pg.fetches,
                                      [limit |-> PageLimit(paginator.strategy, params),
                                       offset |-> PageOffset(paginator.strategy, params),
                                       got |-> Len(page.data)])
                IN  IF \/ ~page.has_more \/ ~paginator.auto_paginate
                       \/ (TruthyInt(pg.limit) /\ Len(all_results) >= pg.limit[1])
                       \/ cap_reached(paginator, all_results)
                    THEN pg' = Finish(pg, all_results, fetches)
                    ELSE pg' = [pg EXCEPT !.all_results = all_results, !.fetches = fetches,
                                   !.params = get_next_page_params(paginator.strategy, params)]
    /\ PageVarsUnchanged

\* iter_pages(page_size, **kwargs) up to the loop
IterPages(page_size, offset) ==
    /\ pg.pc = "idle"
    /\ pg' = [pg EXCEPT !.fn = "iter_pages", !.page_size_arg = page_size,
                        !.offset_arg = offset,
                        !.params = [limit |-> IF page_size = None
                                              THEN Some(pg.paginator.default_page_size)
                                              ELSE page_size,
                                    offset |-> offset],
                        !.pc = "iter"]
    /\ PageVarsUnchanged

\* the consumer asks the generator for its next item: the generator body runs
\* from where it was suspended up to its next yield
ConsumerNext ==
    /\ pg.pc \in {"iter", "iter_events"}
    /\ ~pg.want
    /\ pg' = [pg EXCEPT !.want = TRUE]
    /\ PageVarsUnchanged

\* a generator that goes for the next page as soon as the page it holds is used up
LoopHead_prefetch == pg.page = <<>>

\* the generator is running and "for item in page_data" has no item left to yield
LoopHead == pg.want /\ pg.page = <<>>

\* yield item: the next item of the page held goes to the consumer and the
\* generator is suspended
IterPagesYield ==
    /\ pg.pc \in {"iter", "iter_events"}
    /\ pg.want
    /\ pg.page # <<>>
    /\ pg' = [pg EXCEPT !.result = Append(@, Head(pg.page)), !.page = Tail(@),
                        !.want = FALSE]
    /\ PageVarsUnchanged

\* one turn of the loop of iter_pages: after the items of the page held, the
\* generator ends if that page had no successor, and fetches the next page otherwise
IterPagesStep ==
    /\ pg.pc = "iter"
    /\ LoopHead
    /\ IF ~pg.more
       THEN pg' = [pg EXCEPT !.pc = "done", !.want = FALSE]
       ELSE /\ Len(pg.fetches) < MaxFetches
            /\ LET strategy == pg.paginator.strategy
                   page == fetch_page(strategy, pg.items, pg.params)
               IN  pg' = [pg EXCEPT
                            !.page = page.data,
                            !.more = page.has_more,
                            !.fetches = Append(@, [limit |-> PageLimit(strategy, pg.params),
                                                   offset |-> PageOffset(strategy, pg.params),
                                                   got |-> Len(page.data)]),
                            !.params = IF page.has_more
                                       THEN get_next_page_params(strategy, pg.params) ELSE @]
    /\ PageVarsUnchanged

\* GammaClient._validate_and_warn_limit: the error raised, if any
validate_and_warn_limit(config, limit, auto_paginate) ==
    IF limit > config.max_page_size THEN "PolymarketValidationError" ELSE "none"

\* GammaClient.get_events(limit, offset, auto_paginate) up to the loop of
\* get_events_paginated
GetEvents(limit, offset, auto_paginate) ==
    /\ pg.pc = "idle"
    /\ LET config == pg.config
           lim == IF limit = None THEN config.default_page_size ELSE limit[1]
           auto == IF auto_paginate = None THEN config.enable_auto_pagination
                   ELSE auto_paginate[1]
           page_size == IF ~auto THEN Min(lim, config.max_page_size)
                        ELSE config.default_page_size
           call == [pg EXCEPT !.fn = "get_events", !.limit_arg = limit,
                              !.offset_arg = Some(offset), !.auto_arg = auto_paginate,
                              !.auto_paginate = auto, !.limit = Some(lim),
                              !.params = [limit |-> Some(page_size), offset |-> Some(offset)]]
       IN  IF validate_and_warn_limit(config, lim, auto) # "none"
           THEN pg' = [call EXCEPT !.pc = "done",
                                   !.raised = validate_and_warn_limit(config, lim, auto)]
           ELSE pg' = [call EXCEPT !.pc = "events"]
    /\ PageVarsUnchanged

\* the end of get_events_paginated: from_offset divides by the page size
FinishEvents(rec, all_events, fetches, requested_limit) ==
    LET data == Truncate(all_events, rec.limit)
        page_size == rec.params.limit[1]
    IN  IF page_size = 0
        THEN [rec EXCEPT !.all_results = all_events, !.fetches = fetches, !.pc = "done",
                         !.raised = "PolymarketValidationError"]
        ELSE [rec EXCEPT !.all_results = all_events, !.fetches = fetches, !.pc = "done",
                         !.result = data,
                         !.info = Some(from_offset(rec.offset_arg[1], page_size, Len(data),
                                                   requested_limit))]

\* what the endpoint may do with a request: answer with a list of events or
\* with a JSON object (resp.json() is a dict), answer with an error status
\* (raise_for_status raises HTTPError), or not answer (get raises ConnectionError)
Responses == {"list", "dict", "HTTPError", "ConnectionError"}

\* isinstance(exc, cls) for the exceptions of requests: HTTPError and
\* ConnectionError are subclasses of RequestException
IsInstance(exc, cls) ==
    exc = cls \/ (cls = "RequestException" /\ exc \in {"HTTPError", "ConnectionError"})

\* the except clauses around the request, tried in the order they are written
request_error(exc) ==
    IF IsInstance(exc, "RequestException")
    THEN [raised |-> "PolymarketNetworkError", detail |-> "original_error"]
    ELSE IF IsInstance(exc, "HTTPError")
    THEN [raised |-> "PolymarketAPIError", detail |-> "status_code"]
    ELSE [raised |-> exc, detail |-> ""]

\* a check that hands a body that is not a list on to the validation of the events
format_error_late(body) ==
    IF body # "list"
    THEN [raised |-> "PolymarketValidationError", detail |-> "Failed to validate event data"]
    ELSE [raised |-> "none", detail |-> ""]

\* if not isinstance(events, list): raise PolymarketAPIError
format_error(body) ==
    IF body # "list"
    THEN [raised |-> "PolymarketAPIError", detail |-> "Unexpected response format"]
    ELSE [raised |-> "none", detail |-> ""]

\* the error, if any, that one request of get_events_paginated ends with
response_error(response) ==
    IF response \in {"HTTPError", "ConnectionError"} THEN request_error(response)
    ELSE format_error(response)

\* get_events_paginated is left by an exception: nothing is returned
Fail(rec, fetches, err) ==
    [rec EXCEPT !.fetches = fetches, !.pc = "done", !.want = FALSE,
                !.raised = err.raised, !.detail = err.detail]

\* one turn of the loop of get_events_paginated
GetEventsStep(response) ==
    /\ pg.pc = "events"
    /\ Len(pg.fetches) < MaxFetches
    /\ LET limit == pg.limit[1]
           page_size == pg.params.limit[1]
           current_offset == pg.params.offset[1]
           adjust == ~pg.auto_paginate
                        \/ (limit # 0 /\ Len(pg.all_results) + page_size > limit)
           remaining == IF limit # 0 THEN limit - Len(pg.all_results) ELSE page_size
       IN  IF adjust /\ remaining <= 0
           THEN pg' = FinishEvents(pg, pg.all_results, pg.fetches, page_size)
           ELSE LET request_limit == IF adjust THEN Min(page_size, remaining) ELSE page_size
                    events == IF response = "list"
                              THEN fetch_func(pg.items, request_limit, current_offset)
                              ELSE <<>>
                    all_events == pg.all_results \o events
                    fetches == Append(pg.fetches, [limit |-> request_limit,
                                                   offset |-> current_offset,
                                                   got |-> Len(events)])
                    rec == [pg EXCEPT !.response = response]
                IN  IF response_error(response).raised # "none"
                    THEN pg' = Fail(rec, fetches, response_error(response))
                    ELSE
                    IF \/ Len(events) < request_limit \/ ~pg.auto_paginate
                       \/ (limit # 0 /\ Len(all_events) >= limit)
                    THEN pg' = FinishEvents(rec, all_events, fetches, request_limit)
                    ELSE pg' = [rec EXCEPT !.all_results = all_events, !.fetches = fetches,
                                   !.params.offset = Some(current_offset + request_limit)]
    /\ PageVarsUnchanged

\* GammaClient.iter_events(page_size, offset): the generator is created
IterEvents(page_size, offset) ==
    /\ pg.pc = "idle"
    /\ pg' = [pg EXCEPT !.fn = "iter_events", !.page_size_arg = page_size,
                        !.offset_arg = Some(offset), !.auto_paginate = FALSE,
                        !.params = [limit |-> IF page_size = None
                                              THEN Some(pg.config.default_page_size)
                                              ELSE page_size,
                                    offset |-> Some(offset)],
                        !.pc = "iter_events"]
    /\ PageVarsUnchanged

\* the body of iter_events between two yields: the page size is validated
\* when the body starts; one turn of the loop asks get_events_paginated for one
\* page (auto_paginate=False), which makes one request, or none and an error
\* for a page size of 0
IterEventsStep(response) ==
    /\ pg.pc = "iter_events"
    /\ LoopHead
    /\ LET page_size == pg.params.limit[1]
           current_offset == pg.params.offset[1]
           events == IF response = "list" THEN fetch_func(pg.items, page_size, current_offset)
                     ELSE <<>>
           has_next == from_offset(current_offset, page_size, Len(events), page_size).has_next
       IN  IF page_size > pg.config.max_page_size \/ page_size = 0
           THEN pg' = [pg EXCEPT !.pc = "done", !.want = FALSE,
                                 !.raised = "PolymarketValidationError"]
           ELSE IF ~pg.more
           THEN pg' = [pg EXCEPT !.pc = "done", !.want = FALSE]
           ELSE /\ Len(pg.fetches) < MaxFetches
                /\ LET fetches == Append(pg.fetches, [limit |-> page_size,
                                                      offset |-> current_offset,
                                                      got |-> Len(events)])
                   IN  IF response_error(response).raised # "none"
                       THEN pg' = Fail([pg EXCEPT !.response = response], fetches,
                                       response_error(response))
                       ELSE pg' = [pg EXCEPT
                                     !.response = response,
                                     !.page = events,
                                     !.more = has_next,
                                     !.fetches = fetches,
                                     !.params.offset = IF has_next
                                                       THEN Some(current_offset + page_size)
                                                       ELSE @]
    /\ PageVarsUnchanged

Configs ==
    [default_page_size : 1..MaxPageSize, max_page_size : 1..MaxPageSize,
     max_total_results : {None, Some(1), Some(2)}, enable_auto_pagination : BOOLEAN]

InitialOffsets == {0, 1}

\* a source of n items: item i is the number i
Items(n) == [i \in 1..n |-> i]

Limits == {None} \cup {Some(k) : k \in 0..MaxK}

OffsetArgs == {None, Some(0), Some(1)}

PageSizeArgs == {None} \cup {Some(p) : p \in 0..MaxPageSize}

AutoArgs == {None, Some(TRUE), Some(FALSE)}

InitPage ==
    /\ now = 0
    /\ th = [t \in Threads |-> Idle]
    /\ calls = 0
    /\ TBUnused
    /\ SWUnused
    /\ AuthUnused
    /\ pg \in {NewPaginator(config, initial_offset, Items(n)) :
                  config \in Configs, initial_offset \in InitialOffsets, n \in 0..MaxItems}

NextPage ==
    \/ \E limit \in Limits, offset \in OffsetArgs : FetchAll(limit, offset)
    \/ \E limit \in Limits, offset \in OffsetArgs : FetchPaginated(limit, offset)
    \/ FetchAllStep
    \/ \E page_size \in PageSizeArgs, offset \in OffsetArgs : IterPages(page_size, offset)
    \/ ConsumerNext
    \/ IterPagesYield
    \/ IterPagesStep
    \/ \E page_size \in PageSizeArgs, offset \in InitialOffsets : IterEvents(page_size, offset)
    \/ \E response \in Responses : IterEventsStep(response)
    \/ \E limit \in Limits, offset \in InitialOffsets, auto_paginate \in AutoArgs :
          GetEvents(limit, offset, auto_paginate)
    \/ \E response \in Responses : GetEventsStep(response)

SpecPage == InitPage /\ [][NextPage]_vars

\* a call that has begun goes on: the caller's thread is not stopped, and the
\* consumer of a generator keeps asking for items
SpecPageFair ==
    /\ SpecPage
    /\ WF_vars(FetchAllStep) /\ WF_vars(\E response \in Responses : GetEventsStep(response))
    /\ WF_vars(ConsumerNext) /\ WF_vars(IterPagesYield) /\ WF_vars(IterPagesStep)
    /\ WF_vars(\E response \in Responses : IterEventsStep(response))

Done(fn) == pg.pc = "done" /\ pg.fn = fn

\* the offset the call starts at, and the source's items from there on
StartOffset == PageOffset(pg.paginator.strategy, [limit |-> None, offset |-> pg.offset_arg])

ItemsFromStart == SubSeq(pg.items, StartOffset + 1, Len(pg.items))

\* C16: with auto-pagination enabled, on a source that returns full pages and
\* then a short one, fetch_all(limit=None) returns the pages in order, every
\* item of the source from the starting offset exactly once (stated here for a
\* paginator without max_total_results).
C16_FetchAllComplete ==
    (/\ Done("fetch_all")
     /\ pg.limit_arg = None
     /\ pg.paginator.auto_paginate
     /\ pg.paginator.max_total_results = None)
    => pg.result = ItemsFromStart

\* C30: within one fetch_all or iter_pages invocation the offsets passed to the
\* fetch function are strictly increasing: the first call uses the starting
\* offset (the offset argument if given, otherwise the strategy's
\* initial_offset) and every later call uses the previous offset plus the
\* previous requested page size.
C30_OffsetsAdvance ==
    pg.fn \in {"fetch_all", "iter_pages"} =>
        /\ pg.fetches # <<>> => pg.fetches[1].offset = StartOffset
        /\ \A i \in 2..Len(pg.fetches) :
              /\ pg.fetches[i].offset = pg.fetches[i - 1].offset + pg.fetches[i - 1].limit
              /\ pg.fetches[i].offset > pg.fetches[i - 1].offset

\* the step is a call of the fetch function
Fetches == Len(pg'.fetches) > Len(pg.fetches)

\* the paginator has auto-pagination and a cap
Capped == pg.paginator.auto_paginate /\ TruthyInt(pg.paginator.max_total_results)

\* a fetch happens only while fewer items than the cap are accumulated
NoFetchBeyondCap ==
    (Fetches /\ pg.fn = "fetch_all" /\ Capped)
        => Len(pg.all_results) < pg.paginator.max_total_results[1]

\* C35: with auto-pagination enabled and a max_total_results cap configured,
\* fetch_all issues no further fetch once the accumulated item count has
\* reached max_total_results, whatever limit was requested.
C35_StopsAtCap == [][NoFetchBeyondCap]_vars

\* fetch_all(limit=3) on five items with pages of one and a cap of two has
\* ended after two fetches
C35_Witness ==
    /\ Done("fetch_all") /\ Capped
    /\ pg.paginator.max_total_results = Some(2)
    /\ pg.limit_arg = Some(3)
    /\ Len(pg.items) = 5
    /\ Len(pg.fetches) = 2
    /\ pg.all_results = <<1, 2>>

\* C36: the list returned by fetch_all never contains more than
\* max_total_results items when that cap is configured.
C36_ResultWithinCap ==
    (Done("fetch_all") /\ TruthyInt(pg.paginator.max_total_results))
        => Len(pg.result) <= pg.paginator.max_total_results[1]

\* C37: every call the Paginator makes to the fetch function, from fetch_all,
\* fetch_paginated or iter_pages and for any limit / page_size argument,
\* requests at most max_page_size items.
C37_PageSizeCapped ==
    pg.fn \in {"fetch_all", "fetch_paginated", "iter_pages"} =>
        \A i \in DOMAIN pg.fetches :
            pg.fetches[i].limit <= pg.paginator.strategy.max_page_size

\* the first n items of a sequence, or all of it
Take(seq, n) == SubSeq(seq, 1, Min(n, Len(seq)))

\* the offset reaches every page: it is passed with the call, or it is 0
OffsetCarried == pg.offset_arg # None \/ pg.paginator.strategy.current_offset = 0

\* C17: for every k >= 0 and every source of N items, fetch_all(limit=k)
\* returns the first min(k, N) items of the source in order: exactly k when
\* N >= k, fewer only when the source is exhausted (stated here for a
\* paginator with auto-pagination, without max_total_results, whose offset is
\* carried from page to page).
C17_ExactlyK ==
    (/\ Done("fetch_all")
     /\ pg.limit_arg # None
     /\ pg.paginator.auto_paginate
     /\ pg.paginator.max_total_results = None
     /\ OffsetCarried)
    => pg.result = Take(ItemsFromStart, pg.limit_arg[1])

\* the last page fetched held as many items as were asked for
LastPageFull ==
    /\ pg.fetches # <<>>
    /\ pg.fetches[Len(pg.fetches)].got = pg.fetches[Len(pg.fetches)].limit

\* C18: for every fetch_paginated call, PaginationInfo.has_next is true if and
\* only if the last page fetched during the call held exactly as many items as
\* were requested for that page.
C18_HasNext == Done("fetch_paginated") => (pg.info[1].has_next <=> LastPageFull)

\* a finished fetch_all or get_events that ran with auto-pagination disabled
SinglePageFetch ==
    /\ pg.pc = "done"
    /\ \/ pg.fn = "fetch_all" /\ ~pg.paginator.auto_paginate
       \/ pg.fn = "get_events" /\ ~pg.auto_paginate

\* one call was issued, with the default page size if no limit was given
OneCall ==
    /\ Len(pg.fetches) = 1
    /\ pg.limit_arg = None => pg.fetches[1].limit = pg.config.default_page_size

\* C19 as claimed: with auto-pagination disabled, one fetch_all or get_events
\* issues exactly one call to the fetch function or endpoint, even if the
\* page returned is full; with no limit given, that page is requested with the
\* configured default page size.
C19_ExactlyOneCall == SinglePageFetch => OneCall

\* C19: with auto-pagination disabled, one fetch_all or get_events issues at
\* most one call, and exactly one unless get_events ends with
\* PolymarketValidationError before any request; with no limit given, the
\* page is requested with the configured default page size.
C19_SinglePage ==
    SinglePageFetch => (Len(pg.fetches) <= 1 /\ (pg.raised = "none" => OneCall))

\* get_events without a limit, auto-pagination disabled, on a source that
\* fills the page: one request for default_page_size items, all of them returned
C19_Witness ==
    /\ SinglePageFetch
    /\ pg.fn = "get_events"
    /\ pg.limit_arg = None
    /\ pg.config.default_page_size = 2
    /\ Len(pg.items) = MaxItems
    /\ pg.fetches = <<[limit |-> 2, offset |-> 0, got |-> 2]>>
    /\ pg.result = <<1, 2>>

RECURSIVE PagesOf(_)
\* the items of the pages the source returned to the fetches, in order
PagesOf(fetches) ==
    IF fetches = <<>> THEN <<>>
    ELSE fetch_func(pg.items, fetches[1].limit, fetches[1].offset) \o PagesOf(Tail(fetches))

\* the page size iter_pages runs with
IterPageSize ==
    IF pg.page_size_arg = None THEN pg.paginator.default_page_size ELSE pg.page_size_arg[1]

\* what a finished iter_pages has yielded: the pages in order, all full but
\* the last, which is short
IterYield ==
    /\ pg.result = PagesOf(pg.fetches)
    /\ pg.fetches # <<>>
    /\ \A i \in DOMAIN pg.fetches :
          /\ pg.fetches[i].limit = IterPageSize
          /\ i < Len(pg.fetches) => pg.fetches[i].got = IterPageSize
          /\ i = Len(pg.fetches) => pg.fetches[i].got < IterPageSize

\* C20: iter_pages with page size p >= 1 comes to an end on a source that
\* eventually returns a short page; it yields, in order, exactly the items of
\* the successive pages up to and including the first page with fewer than p
\* items, and fetches nothing after that page.
C20_IterPagesFinite ==
    /\ [](Done("iter_pages") => IterYield)
    /\ [][Done("iter_pages") => pg' = pg]_vars
    /\ ((pg.pc = "iter" /\ IterPageSize >= 1) ~> Done("iter_pages"))

\* iter_pages(page_size=2) on the largest source: three pages, the last one short
C20_Witness ==
    /\ Done("iter_pages")
    /\ pg.page_size_arg = Some(2)
    /\ Len(pg.items) = MaxItems
    /\ Len(pg.fetches) = (MaxItems \div 2) + 1
    /\ pg.result = pg.items

\* the generators: Paginator.iter_pages and GammaClient.iter_events
Generators == {"iter_pages", "iter_events"}

RECURSIVE GotUpTo(_)
\* the number of items of the first i pages fetched
GotUpTo(i) == IF i = 0 THEN 0 ELSE GotUpTo(i - 1) + pg.fetches[i].got

\* the pages of which every item has been handed to the consumer
FullyConsumed == {i \in DOMAIN pg.fetches : GotUpTo(i) <= Len(pg.result)}

\* every item fetched is with the consumer or in the one page held, and a
\* page is fetched only after the pages before it were handed over entirely
OnePageHeld ==
    pg.fn \in Generators =>
        /\ Len(pg.result) + Len(pg.page) = GotUpTo(Len(pg.fetches))
        /\ pg.fetches # <<>> => Len(pg.page) <= pg.fetches[Len(pg.fetches)].got
        /\ Len(pg.fetches) <= 1 + Cardinality(FullyConsumed)

\* a fetch is made only while the consumer is waiting for an item and no item
\* of the page held is left
FetchOnDemand ==
    (pg.fn \in Generators /\ pg'.fetches # pg.fetches) =>
        /\ pg.want /\ pg.page = <<>>
        /\ Len(pg'.fetches) = Len(pg.fetches) + 1
        /\ Cardinality(FullyConsumed) = Len(pg.fetches)

\* C21: iter_pages (and iter_events) is lazy: page i+1 is never fetched before
\* every item of page i has been handed to the consumer, at most one page is
\* held, the number of fetch calls is at most 1 + the number of pages fully
\* consumed, and while the consumer does not ask for an item nothing is fetched.
C21_Lazy == []OnePageHeld /\ [][FetchOnDemand]_vars

\* the second page has just been fetched: the first is with the consumer,
\* the second is held entire
C21_Witness ==
    /\ pg # None
    /\ pg.fn = "iter_pages"
    /\ Len(pg.fetches) = 2
    /\ pg.fetches[1].got = 2
    /\ pg.result = <<1, 2>>
    /\ pg.page = <<3, 4>>

\* the call in progress reaches the events endpoint
EventsCall == pg.fn \in {"get_events", "iter_events"}

\* C25: a paginated events response whose body is not a list ends the call
\* with PolymarketAPIError, 'Unexpected response format': not with a
\* data-validation error and not with a result, empty or not; no item of that
\* response is returned.
C25_NotAListIsAPIError ==
    (EventsCall /\ pg.response = "dict") =>
        /\ pg.pc = "done"
        /\ pg.raised = "PolymarketAPIError"
        /\ pg.detail = "Unexpected response format"
        /\ pg.info = None
        /\ pg.page = <<>>
        /\ pg.fn = "get_events" => pg.result = <<>>

\* get_events with auto-pagination: a full first page, then a body that is
\* not a list
C25_Witness ==
    /\ pg.fn = "get_events"
    /\ pg.response = "dict"
    /\ Len(pg.fetches) = 2
    /\ pg.fetches[1].got = 2
    /\ pg.raised = "PolymarketAPIError"

\* C26: when the events endpoint answers with an HTTP error status, get_events
\* raises PolymarketAPIError carrying the status code, whereas a
\* connection-level failure raises PolymarketNetworkError carrying the
\* original error.
C26_ErrorClasses ==
    (pg.fn = "get_events" /\ pg.pc = "done") =>
        /\ pg.response = "HTTPError" =>
              pg.raised = "PolymarketAPIError" /\ pg.detail = "status_code"
        /\ pg.response = "ConnectionError" =>
              pg.raised = "PolymarketNetworkError" /\ pg.detail = "original_error"

-----------------------------------------------------------------------------
(* The token bucket and the adapter, one caller at a time *)

Init ==
    /\ now = 0
    /\ \E rate \in Rates, burstArg \in {None} \cup {Some(c) : c \in 1..MaxBurst},
          perHost \in BOOLEAN :
          limiter = TokenBucketRateLimiter(rate, burstArg, perHost)
    /\ buckets = [k \in DictKeys |-> None]
    /\ global_bucket = NewBucket(0)
    /\ adapter \in {[timeout_on_rate_limit |-> to] : to \in Timeouts}
    /\ th = [t \in Threads |-> Idle]
    /\ calls = 0
    /\ born = [r \in BucketRefs |-> 0]
    /\ grants = [r \in BucketRefs |-> 0]
    /\ denials = [r \in BucketRefs |-> 0]
    /\ detached = [t \in Threads |-> None]
    /\ SWUnused
    /\ AuthUnused
    /\ PaginatorUnused

Next ==
    \/ \E t \in SeqThreads, url \in SeqUrls, timeout \in Timeouts : WaitIfNeeded(t, url, timeout)
    \/ \E t \in SeqThreads, url \in SeqUrls : Send(t, url)
    \/ \E t \in SeqThreads, url \in SeqUrls : CanProceed(t, url)
    \/ \E t \in SeqThreads : TBAttempt(t)
    \/ \E t \in SeqThreads : TBCheck(t)
    \/ \E t \in SeqThreads : TBWake(t)
    \/ \E t \in SeqThreads, outcome \in InnerOutcomes : InnerSend(t, outcome)
    \/ \E t \in SeqThreads : Return(t)
    \/ Tick

Spec == Init /\ [][Next]_vars

TypeOK ==
    /\ now \in 0..MaxTime
    /\ calls \in 0..MaxCalls

-----------------------------------------------------------------------------
(* Claims about the token bucket and the adapter, checked under Spec *)

Cap == limiter.burst_capacity

BurstState ==
    \A ref \in BucketRefs :
        (Exists(ref) /\ Cap >= 1 /\ now = born[ref]) =>
            /\ grants[ref] <= Cap
            /\ denials[ref] > 0 => grants[ref] = Cap
            /\ Deref(ref).tokens = (Cap - grants[ref]) * S

BurstStep ==
    \A ref \in BucketRefs :
        (grants'[ref] > grants[ref] /\ Deref(ref).tokens < S) =>
            (now - Deref(ref).last_update) * R >= S - Deref(ref).tokens

\* C1: on a fresh bucket of capacity C >= 1, while no time elapses, exactly the
\* first C attempts are granted (none is denied before C grants, none granted
\* after); and a grant out of a bucket holding less than one token comes only
\* when at least (1 - tokens) / rate has elapsed since the bucket's last refill.
C1_BurstBound == []BurstState /\ [][BurstStep]_vars

\* the (C+1)-th grant of a bucket, after an attempt was denied
C1_Witness ==
    \E ref \in BucketRefs : Exists(ref) /\ grants[ref] = Cap + 1 /\ denials[ref] = 1

\* C3: 0 <= tokens <= capacity in every bucket, in every reachable state.
C3_TokensInRange ==
    /\ 0 <= global_bucket.tokens /\ global_bucket.tokens <= CapUnits
    /\ \A k \in DictKeys :
          buckets[k] # None => 0 <= buckets[k][1].tokens /\ buckets[k][1].tokens <= CapUnits

\* a bucket drained by grants and a timed-out call, later refilled to its capacity
C3_Witness ==
    \E ref \in BucketRefs :
        /\ Exists(ref) /\ grants[ref] = Cap /\ denials[ref] = 1
        /\ Deref(ref).tokens = CapUnits /\ Deref(ref).last_update > born[ref]

\* C4: wait_if_needed returns normally only having taken a token; with a finite
\* timeout it goes to sleep only if time waited + estimated wait <= timeout and
\* otherwise raises RateLimitError with retry_after = the estimated wait
\* (1 - tokens) / rate; with timeout 0 it never sleeps.
C4_TimeoutRaises ==
    \A t \in Threads :
        LET rec == th[t]
            raised == rec.retry_after # None
        IN  /\ (rec.pc = "inner" \/ (rec.pc = "done" /\ ~raised)) => rec.took = 1
            /\ (rec.pc = "tb_sleep" /\ rec.timeout # None) =>
                  (rec.checked_at - rec.start_time) * R + rec.wait_time <= rec.timeout[1] * R
            /\ (rec.pc = "tb_sleep" /\ rec.timeout # None) => rec.timeout[1] > 0
            /\ raised =>
                  /\ rec.pc = "done" /\ rec.took = 0 /\ rec.timeout # None
                  /\ rec.via = "direct" => rec.result = "RateLimitError"
                  /\ (rec.checked_at - rec.start_time) * R + rec.wait_time
                        > rec.timeout[1] * R
                  /\ rec.retry_after = Some(S - Deref(rec.ref).tokens)
                  /\ Deref(rec.ref).tokens < S

\* rate 5/s, burst 5: five immediate grants, then the sixth call with timeout 0 raises
C4_Witness ==
    /\ limiter.rate = <<1, 2>> /\ Cap = 5 /\ calls = 6
    /\ \E t \in Threads :
          /\ th[t].via = "direct" /\ th[t].result = "RateLimitError"
          /\ th[t].timeout = Some(0)
          /\ grants[th[t].ref] = 5 /\ now = born[th[t].ref]

\* C5: send calls wait_if_needed once, with the request URL and the configured
\* timeout, before the inner transport is called; once granted, the inner
\* transport is called exactly once and its response or error is the result.
C5_SendDelegates ==
    \A t \in Threads :
        LET rec == th[t]
        IN  rec.via = "send" =>
              /\ rec.waitArgs = << <<rec.url, adapter.timeout_on_rate_limit>> >>
              /\ rec.timeout = adapter.timeout_on_rate_limit
              /\ rec.pc \in {"tb_loop", "tb_check", "tb_sleep", "inner"} => rec.innerCalls = 0
              /\ rec.pc = "inner" => rec.took = 1
              /\ (rec.pc = "done" /\ rec.took = 1) =>
                    /\ rec.innerCalls = 1
                    /\ rec.result = rec.innerOutcome
                    /\ rec.result \in InnerOutcomes

\* a send that waited for its token and passed on the inner transport's error
C5_Witness ==
    \E t \in Threads :
        /\ th[t].via = "send" /\ th[t].pc = "done" /\ th[t].innerCalls = 1
        /\ th[t].result = "ConnectionError" /\ denials[th[t].ref] = 1

\* C6: when wait_if_needed raises RateLimitError inside send, send raises
\* Timeout, not RateLimitError, and the inner transport is not called.
C6_SendTimeout ==
    \A t \in Threads :
        (th[t].via = "send" /\ th[t].retry_after # None) =>
            /\ th[t].pc = "done"
            /\ th[t].result = "Timeout"
            /\ th[t].innerCalls = 0

C6_Witness ==
    \E t \in Threads :
        th[t].via = "send" /\ th[t].result = "Timeout" /\ th[t].retry_after # None

-----------------------------------------------------------------------------
(* Both limiters, requests to several hosts, one caller at a time who never *)
(* waits (timeout 0)                                                         *)

MaxCallsKeys == 2

MaxTimeKeys == 1

\* time.time advances
KeysTick ==
    /\ now < MaxTimeKeys
    /\ now' = now + 1
    /\ UNCHANGED <<th, calls, tbVars, swVars, authVars, pageVars>>

InitKeys ==
    /\ now = 0
    /\ \E perHost \in BOOLEAN :
          limiter = TokenBucketRateLimiter(<<1, 2>>, Some(1), perHost)
    /\ buckets = [k \in DictKeys |-> None]
    /\ global_bucket = NewBucket(0)
    /\ adapter = [timeout_on_rate_limit |-> None]
    /\ born = [r \in BucketRefs |-> 0]
    /\ grants = [r \in BucketRefs |-> 0]
    /\ denials = [r \in BucketRefs |-> 0]
    /\ detached = [t \in Threads |-> None]
    /\ \E w \in WindowSeconds, perHost \in BOOLEAN :
          sw = SlidingWindowRateLimiter(1, w, perHost)
    /\ windows = [k \in DictKeys |-> None]
    /\ global_window = <<>>
    /\ swLock = [r \in BucketRefs |-> 0]
    /\ issued = [r \in BucketRefs |-> <<>>]
    /\ th = [t \in Threads |-> Idle]
    /\ calls = 0
    /\ AuthUnused
    /\ PaginatorUnused

NextKeys ==
    \/ /\ calls < MaxCallsKeys
       /\ \E t \in SeqThreads, url \in KeyUrls :
             \/ WaitIfNeeded(t, url, Some(0))
             \/ SWWaitIfNeeded(t, url, Some(0))
    \/ \E t \in SeqThreads, url \in KeyUrls : CanProceed(t, url)
    \/ \E t \in SeqThreads, url \in KeyUrls : SWCanProceed(t, url)
    \/ \E t \in SeqThreads : TBAttempt(t)
    \/ \E t \in SeqThreads : TBCheck(t)
    \/ \E t \in SeqThreads : SWLock(t)
    \/ \E t \in SeqThreads : SWTest(t)
    \/ \E t \in SeqThreads : SWCheck(t)
    \/ \E t \in SeqThreads : Return(t)
    \/ KeysTick

SpecKeys == InitKeys /\ [][NextKeys]_vars

\* the caller whose step this is works for host k
ActsFor(k) == \E t \in Threads : th'[t] # th[t] /\ Netloc(th'[t].url) = k

\* a step changes only the bucket and the window of the key of its request
KeyFrame ==
    /\ \A k \in DictKeys :
          /\ buckets'[k] # buckets[k] => limiter.per_host /\ ActsFor(k)
          /\ windows'[k] # windows[k] => sw.per_host /\ ActsFor(k)
    /\ global_bucket' # global_bucket => ~limiter.per_host
    /\ global_window' # global_window => ~sw.per_host

\* requests share state exactly when they have the same key
KeySharing ==
    \A u1, u2 \in KeyUrls :
        /\ get_bucket(get_bucket_key(u1)) = get_bucket(get_bucket_key(u2))
              <=> (limiter.per_host => Netloc(u1) = Netloc(u2))
        /\ get_window(sw_get_bucket_key(u1)) = get_window(sw_get_bucket_key(u2))
              <=> (sw.per_host => Netloc(u1) = Netloc(u2))

\* the grants of all hosts together are what one bucket and one window allow
\* when per_host is false, and each host has its own allowance otherwise
KeyAllowance ==
    /\ \A ref \in BucketRefs :
          /\ now = 0 => grants[ref] <= limiter.burst_capacity
          /\ (now = 0 /\ denials[ref] > 0) => grants[ref] = limiter.burst_capacity
          /\ now < sw.window_size => Len(issued[ref]) <= sw.limit
    /\ ~limiter.per_host => \A k \in DictKeys : buckets[k] = None /\ grants[k] = 0
    /\ ~sw.per_host => \A k \in DictKeys : windows[k] = None /\ issued[k] = <<>>
    /\ limiter.per_host => global_bucket = NewBucket(0) /\ grants[GlobalRef] = 0
    /\ sw.per_host => global_window = <<>> /\ issued[GlobalRef] = <<>>

\* C23: rate-limit state is keyed by target host when per_host is true and by
\* one fixed key otherwise: two requests draw on the same bucket/window if and
\* only if they map to the same key; with per_host=true an operation for host A
\* leaves host B's tokens/timestamps unchanged, and with per_host=false
\* exhausting the limit through one host exhausts it for every host.
C23_Keying == [](KeySharing /\ KeyAllowance) /\ [][KeyFrame]_vars

\* per_host=false: the one token went to host a, and a request to host b is
\* refused with no time elapsed; per_host=true in the window limiter: host b
\* has its slot although host a used its own
C23_Witness ==
    /\ ~limiter.per_host /\ limiter.burst_capacity = 1 /\ now = 0
    /\ grants[GlobalRef] = 1
    /\ \E t \in Threads : th[t].url = "http://b/y" /\ th[t].result = "RateLimitError"
    /\ sw.per_host

-----------------------------------------------------------------------------
(* Concurrent callers of the token bucket. _get_bucket takes no lock:
   self._buckets[bucket_key] on a missing key calls the default factory, a
   Python lambda during which another thread can run, and only then stores
   the new bucket under the key. The lookup that misses and the store are
   two steps of the caller. *)

MaxCallsConc == 3

ConcTimeouts == {Some(0), Some(2)}

\* the call holds a bucket: it is between _get_bucket and its return
InCall(rec) == rec.pc \in {"tb_loop", "tb_check", "tb_sleep"}

\* a thread is in the default factory for the key
InFactory(ref) == \E u \in Threads : th[u].pc = "tb_factory" /\ KeyRef(th[u]) = ref

\* wait_if_needed, lines 100-103, the bucket of the key is there
Hit(t, url, timeout) ==
    /\ Exists(get_bucket(get_bucket_key(url)))
    /\ calls < MaxCallsConc
    /\ WaitIfNeeded(t, url, timeout)

\* wait_if_needed, lines 100-101, the key is missing: the default factory
\* builds a bucket that only this thread holds
Miss(t, url, timeout) ==
    LET ref == get_bucket(get_bucket_key(url))
    IN  /\ th[t].pc = "idle"
        /\ ~Exists(ref)
        /\ calls < MaxCallsConc
        /\ calls' = calls + 1
        /\ detached' = [detached EXCEPT ![t] = Some(NewBucket(now))]
        /\ born' = IF InFactory(ref) THEN born ELSE [born EXCEPT ![ref] = now]
        /\ th' = [th EXCEPT ![t] = [Idle EXCEPT !.pc = "tb_factory", !.via = "direct",
                                     !.url = url, !.ref = OwnRef(t), !.timeout = timeout]]
        /\ UNCHANGED <<now, limiter, buckets, global_bucket, adapter, grants, denials,
                       swVars, authVars, pageVars>>

\* the defaultdict stores the factory's bucket under the key and returns it,
\* line 103 reads start_time; a bucket another thread stored in between is
\* replaced in _buckets and stays with the caller that got it
Insert(t) ==
    LET key == KeyRef(th[t])
        users == {u \in Threads \ {t} : InCall(th[u]) /\ th[u].ref = key}
    IN  /\ th[t].pc = "tb_factory"
        /\ buckets' = [buckets EXCEPT ![key] = detached[t]]
        /\ detached' = [u \in Threads |->
                           IF u = t THEN None
                           ELSE IF u \in users THEN buckets[key] ELSE detached[u]]
        /\ th' = [u \in Threads |->
                     IF u = t THEN [th[t] EXCEPT !.pc = "tb_loop", !.ref = key,
                                                 !.start_time = now]
                     ELSE IF u \in users THEN [th[u] EXCEPT !.ref = OwnRef(u)] ELSE th[u]]
        /\ UNCHANGED <<now, calls, limiter, global_bucket, adapter, born, grants, denials,
                       swVars, authVars, pageVars>>

InitConc ==
    /\ now = 0
    /\ \E perHost \in BOOLEAN :
          limiter = TokenBucketRateLimiter(<<1, 2>>, Some(1), perHost)
    /\ buckets = [k \in DictKeys |-> None]
    /\ global_bucket = NewBucket(0)
    /\ adapter = [timeout_on_rate_limit |-> None]
    /\ born = [r \in BucketRefs |-> 0]
    /\ grants = [r \in BucketRefs |-> 0]
    /\ denials = [r \in BucketRefs |-> 0]
    /\ detached = [t \in Threads |-> None]
    /\ th = [t \in Threads |-> Idle]
    /\ calls = 0
    /\ SWUnused
    /\ AuthUnused
    /\ PaginatorUnused

NextConc ==
    \/ \E t \in Threads, url \in SeqUrls, timeout \in ConcTimeouts : Hit(t, url, timeout)
    \/ \E t \in Threads, url \in SeqUrls, timeout \in ConcTimeouts : Miss(t, url, timeout)
    \/ \E t \in Threads : Insert(t)
    \/ \E t \in Threads : TBAttempt(t)
    \/ \E t \in Threads : TBCheck(t)
    \/ \E t \in Threads : TBWake(t)
    \/ \E t \in Threads : Return(t)
    \/ KeysTick

SpecConc == InitConc /\ [][NextConc]_vars

\* C27: under any interleaving of concurrent wait_if_needed calls of several
\* threads on one key, refill, test and decrement are one atomic step, no token
\* goes to two callers, and the burst bound holds as with a single thread: the
\* tokens granted for a key never exceed the capacity plus what the rate has
\* refilled since the start.
C27_BurstBoundConcurrent ==
    \A ref \in BucketRefs : grants[ref] * S <= CapUnits + now * R

\* C29: for each key there is one bucket and one lock over the limiter's
\* lifetime, also when several threads make the first access concurrently:
\* all callers that use the same key operate on the same state object.
C29_OneObjectPerKey ==
    \A t, u \in Threads :
        (InCall(th[t]) /\ InCall(th[u]) /\ KeyRef(th[t]) = KeyRef(th[u]))
            => th[t].ref = th[u].ref

-----------------------------------------------------------------------------
(* Two threads and two hosts on a per-host limiter: the client is built with
   the token bucket or with the sliding window. *)

MaxCallsCross == 3

CrossTimeouts == {None, Some(0)}

MaxTimeCross == 10

\* which limiter the client was built with
UsesWindow == sw.limit > 0

\* time.time advances, a second at a time
CrossTick ==
    /\ now + TicksPerSecond <= MaxTimeCross
    /\ now' = now + TicksPerSecond
    /\ UNCHANGED <<th, calls, tbVars, swVars, authVars, pageVars>>

InitCross ==
    /\ now = 0
    /\ th = [t \in Threads |-> Idle]
    /\ calls = 0
    /\ \/ /\ limiter = TokenBucketRateLimiter(<<1, 2>>, Some(1), TRUE)
          /\ buckets = [k \in DictKeys |-> None]
          /\ global_bucket = NewBucket(0)
          /\ adapter = [timeout_on_rate_limit |-> None]
          /\ born = [r \in BucketRefs |-> 0]
          /\ grants = [r \in BucketRefs |-> 0]
          /\ denials = [r \in BucketRefs |-> 0]
          /\ detached = [t \in Threads |-> None]
          /\ SWUnused
       \/ /\ TBUnused
          /\ sw = SlidingWindowRateLimiter(1, 1, TRUE)
          /\ windows = [k \in DictKeys |-> None]
          /\ global_window = <<>>
          /\ swLock = [r \in BucketRefs |-> 0]
          /\ issued = [r \in BucketRefs |-> <<>>]
    /\ AuthUnused
    /\ PaginatorUnused

NextCross ==
    \/ \E t \in Threads, url \in Urls, timeout \in CrossTimeouts :
          ~UsesWindow /\ calls < MaxCallsCross /\ Hit(t, url, timeout)
    \/ \E t \in Threads, url \in Urls, timeout \in CrossTimeouts :
          ~UsesWindow /\ calls < MaxCallsCross /\ Miss(t, url, timeout)
    \/ \E t \in Threads : ~UsesWindow /\ Insert(t)
    \/ \E t \in Threads, url \in Urls : ~UsesWindow /\ CanProceed(t, url)
    \/ \E t \in Threads : ~UsesWindow /\ TBAttempt(t)
    \/ \E t \in Threads : ~UsesWindow /\ TBCheck(t)
    \/ \E t \in Threads : ~UsesWindow /\ TBWake(t)
    \/ \E t \in Threads, url \in Urls, timeout \in CrossTimeouts :
          UsesWindow /\ calls < MaxCallsCross /\ SWWaitIfNeeded(t, url, timeout)
    \/ \E t \in Threads, url \in Urls : UsesWindow /\ SWCanProceed(t, url)
    \/ \E t \in Threads : UsesWindow /\ SWLock(t)
    \/ \E t \in Threads : UsesWindow /\ SWTest(t)
    \/ \E t \in Threads : UsesWindow /\ SWCheck(t)
    \/ \E t \in Threads : UsesWindow /\ SWWake(t)
    \/ \E t \in Threads : Return(t)
    \/ CrossTick

SpecCross == InitCross /\ [][NextCross]_vars

\* the locks a thread holds
LocksOf(t) == {ref \in BucketRefs : swLock[ref] = t}

\* the thread is between two passes of the loop: checking the timeout or asleep
Waiting(t) == th[t].pc \in {"tb_check", "tb_sleep", "sw_check", "sw_sleep"}

\* a thread holds a lock only inside the locked block, and only the lock of
\* the window of its own request
LockDiscipline ==
    \A t \in Threads :
        /\ Waiting(t) => LocksOf(t) = {}
        /\ Cardinality(LocksOf(t)) <= 1
        /\ LocksOf(t) # {} => th[t].pc = "sw_test" /\ LocksOf(t) = {th[t].ref}

\* a call that is about to enter the locked block can do so unless a thread
\* is inside the locked block of the same key
NotBlockedByOtherKey ==
    \A t \in Threads :
        /\ (th[t].pc = "sw_lock"
              /\ \A u \in Threads \ {t} : th[u].pc = "sw_test" => th[u].ref # th[t].ref)
            => ENABLED SWLock(t)
        /\ th[t].pc = "tb_loop" => ENABLED TBAttempt(t)

\* a call is turned away only when its own key is exhausted, and a step of a
\* call changes the state of no other key
OwnKeyOnly ==
    \A t \in Threads :
        /\ (th[t].pc = "tb_loop" /\ th'[t].pc = "tb_check")
              => refill_tokens(Deref(th[t].ref), now).tokens < S
        /\ (th[t].pc = "sw_test" /\ th'[t].pc = "sw_check")
              => Len(Requests(th[t].ref)) >= sw.limit
        /\ th'[t] # th[t] =>
              \A k \in DictKeys :
                  (k # Netloc(th'[t].url)) =>
                      /\ buckets'[k] = buckets[k]
                      /\ windows'[k] = windows[k]
                      /\ swLock'[k] = swLock[k]

\* C34: no cross-key blocking: a thread waiting in wait_if_needed for an
\* exhausted key holds no lock while it sleeps and no operation ever holds the
\* locks of two keys, so can_proceed / wait_if_needed on a different key that
\* has capacity completes without waiting for the first key.
C34_NoCrossKeyBlocking ==
    [](LockDiscipline /\ NotBlockedByOtherKey) /\ [][OwnKeyOnly]_vars

\* thread 1 sleeps on host a, whose window is full, and meanwhile thread 2 has
\* been granted a request to host b at once
C34_Witness ==
    /\ UsesWindow
    /\ th[1].pc = "sw_sleep" /\ th[1].url = "http://a/x"
    /\ th[2].pc = "done" /\ th[2].url = "http://b/y" /\ th[2].result = "granted"
    /\ th[2].start_time >= th[1].checked_at
    /\ issued["b"] = <<th[2].start_time>>

-----------------------------------------------------------------------------
(* A sole caller that waits without a timeout, on a token bucket built with
   the default burst capacity: 0.5 requests per second (a token in 20 ticks)
   and a rate just below it (a token in 21 ticks). *)

MaxCallsLive == 2

MaxTimeLive == 22

LowRates == {<<1, 20>>, <<1, 21>>}

LiveTick ==
    /\ now < MaxTimeLive
    /\ now' = now + 1
    /\ UNCHANGED <<th, calls, tbVars, swVars, authVars, pageVars>>

InitLive ==
    /\ now = 0
    /\ \E rate \in LowRates, perHost \in BOOLEAN :
          limiter = TokenBucketRateLimiter(rate, None, perHost)
    /\ buckets = [k \in DictKeys |-> None]
    /\ global_bucket = NewBucket(0)
    /\ adapter = [timeout_on_rate_limit |-> None]
    /\ born = [r \in BucketRefs |-> 0]
    /\ grants = [r \in BucketRefs |-> 0]
    /\ denials = [r \in BucketRefs |-> 0]
    /\ detached = [t \in Threads |-> None]
    /\ th = [t \in Threads |-> Idle]
    /\ calls = 0
    /\ SWUnused
    /\ AuthUnused
    /\ PaginatorUnused

NextLive ==
    \/ \E t \in SeqThreads, url \in SeqUrls :
          calls < MaxCallsLive /\ WaitIfNeeded(t, url, None)
    \/ \E t \in SeqThreads : TBAttempt(t)
    \/ \E t \in SeqThreads : TBCheck(t)
    \/ \E t \in SeqThreads : TBWake(t)
    \/ \E t \in SeqThreads : Return(t)
    \/ LiveTick

SpecLive == InitLive /\ [][NextLive]_vars

\* the caller is turned away only while the time for one token has not yet
\* passed since its call began, and its call ends only with a grant
AcquireStep ==
    \A t \in SeqThreads :
        /\ (th[t].pc = "tb_loop" /\ th'[t].pc = "tb_check")
              => (now - th[t].start_time) * R < S
        /\ (th[t].pc # "done" /\ th'[t].pc = "done") => th'[t].result = "granted"

\* C38: for a limiter built with any positive rate and the default burst
\* capacity, a sole caller's wait_if_needed with timeout=None returns with a
\* grant once time has advanced: the request is delayed, never blocked
\* forever. The delay is at most the time the rate needs for one token.
C38_GrantedInTime == [][AcquireStep]_vars

-----------------------------------------------------------------------------
(* A sole caller that asks can_proceed and calls wait_if_needed, on the token
   bucket or on the sliding window. *)

NextPure ==
    \/ \E t \in SeqThreads, url \in Urls, timeout \in CrossTimeouts :
          ~UsesWindow /\ WaitIfNeeded(t, url, timeout)
    \/ \E t \in SeqThreads, url \in Urls : ~UsesWindow /\ CanProceed(t, url)
    \/ \E t \in SeqThreads : ~UsesWindow /\ TBAttempt(t)
    \/ \E t \in SeqThreads : ~UsesWindow /\ TBCheck(t)
    \/ \E t \in SeqThreads : ~UsesWindow /\ TBWake(t)
    \/ ~UsesWindow /\ Tick
    \/ \E t \in SeqThreads, url \in Urls, timeout \in CrossTimeouts :
          UsesWindow /\ SWWaitIfNeeded(t, url, timeout)
    \/ \E t \in SeqThreads, url \in Urls : UsesWindow /\ SWCanProceed(t, url)
    \/ \E t \in SeqThreads : UsesWindow /\ SWLock(t)
    \/ \E t \in SeqThreads : UsesWindow /\ SWTest(t)
    \/ \E t \in SeqThreads : UsesWindow /\ SWCheck(t)
    \/ \E t \in SeqThreads : UsesWindow /\ SWWake(t)
    \/ UsesWindow /\ SWTick
    \/ \E t \in SeqThreads : Return(t)

SpecPure == InitCross /\ [][NextPure]_vars

\* the step is a can_proceed call of thread t
Asks(t) == th'[t].pc = "idle" /\ th'[t].can # <<>> /\ th'[t].can # th[t].can

\* q is what is left of p after some of its oldest entries were dropped
IsSuffix(q, p) == Len(q) <= Len(p) /\ q = SubSeq(p, Len(p) - Len(q) + 1, Len(p))

\* a can_proceed call takes no token and records no request time
TakesNothing ==
    \A t \in SeqThreads :
        Asks(t) =>
            /\ global_bucket'.tokens >= global_bucket.tokens
            /\ \A k \in DictKeys :
                  /\ buckets[k] # None => buckets'[k][1].tokens >= buckets[k][1].tokens
                  /\ (buckets[k] = None /\ buckets'[k] # None)
                        => buckets'[k][1] = NewBucket(now)
                  /\ windows'[k] # None => IsSuffix(windows'[k][1], Requests(k))
            /\ IsSuffix(global_window', global_window)
            /\ grants' = grants /\ issued' = issued

\* after the answer True the caller's wait_if_needed is granted at its first
\* attempt, and the answers in a row never go from True to False
TrueStaysTrue ==
    \A t \in SeqThreads :
        /\ \A i, j \in DOMAIN th[t].can : (i < j /\ th[t].can[i]) => th[t].can[j]
        /\ (th[t].can # <<>> /\ th[t].can[Len(th[t].can)]) =>
              /\ th[t].pc \in {"idle", "tb_loop", "sw_lock", "sw_test", "done"}
              /\ th[t].pc = "done" => th[t].result = "granted"

====
